---- MODULE Spec2Model ----
(***************************************************************************)
(* MetaApp indexer and deploy service (meta-app-service).                  *)
(*                                                                         *)
(* The model covers the ingest handler of the indexer service, the Pebble  *)
(* collections it writes, the block scanner with its ZMQ hand-off, and the *)
(* deploy worker.  Strings of the program stay strings; a prefix test on a *)
(* string is a lookup over the finite universe of strings of the model.    *)
(* json.Marshal / json.Unmarshal of the modelled fields is lossless, so a  *)
(* stored value is the record itself.  The CreatedAt / UpdatedAt fields    *)
(* (time.Now()) are not modelled.                                          *)
(***************************************************************************)
EXTENDS Integers, Sequences, FiniteSets, TLC

(***************************************************************************)
(* Bounds of the model.                                                    *)
(***************************************************************************)
\* the wall clock runs from SecondsLimit to SecondsLimit + MaxTicks
MaxTicks == 1
\* the node mines at most MaxBlocks blocks
MaxBlocks == 1
\* a mined block carries 1..MaxBlockTxs transactions
MaxBlockTxs == 2
\* the configured start height is one of 0..MaxConfigStart
MaxConfigStart == 1
\* an archive handed to unzipFile has at most MaxEntries entries
MaxEntries == 3
\* the subscriber socket holds at most MaxInbox messages
MaxInbox == 2
\* the event timestamps handed to the handler are 0..MaxTimestamp
MaxTimestamp == 120

(***************************************************************************)
(* Program constants.  TLC integers are 32 bit, so the two large constants *)
(* are scaled: every timestamp of the model is a millisecond value (at or  *)
(* above SecondsLimit) and every reverse timestamp has the same number of  *)
(* decimal digits, as 19-digit reverse timestamps have in the program.     *)
(***************************************************************************)
\* indexer_service.go:397  `timestamp < 10000000000`
SecondsLimit == 10
\* src/unnamed/part_004:437  `int64(^uint64(0)>>1)`
MaxInt64 == 99
\* indexer_service.go:670  `const maxRetryCount = 3`
maxRetryCount == 3

ProtocolPath == "/protocols/metaapp"

(***************************************************************************)
(* The transactions of the chain.  A pin id is <txid>i<vout>, so what a    *)
(* pin carries is fixed by its id; what varies between deliveries is the   *)
(* height, the timestamp and whether the creator lookup by RPC succeeds.   *)
(***************************************************************************)
PinIDs == {"P0", "P1", "P2", "P3", "P4", "P5", "P6", "P7", "P8", "P9",
           "PA", "PB", "PC"}
Txs == {"T0", "T1", "T2", "T3", "T4", "T5", "T6", "T7", "T8"}

\* ids of the content store that have the form ^[0-9a-f]{64}i\d+$
WellFormedIds == {"Ahtml", "Ajs", "Zevil", "Amiss"}
\* every id a code / content field of the model holds after "metafile://"
FileIds == WellFormedIds \cup {"not-a-pin-id"}

\* the runs of the ingest specification: the versions of one app, or the
\* transaction with a revoke and a modify of it
IngestRuns == {{"T0", "T1", "T2"}, {"T3"}}

TxPins(t) ==
    CASE t = "T0" -> <<"P0">>
      [] t = "T1" -> <<"P1">>
      [] t = "T2" -> <<"P2">>
      [] t = "T3" -> <<"P3", "P4">>
      [] t = "T4" -> <<"PC">>
      [] t = "T5" -> <<"P5">>
      [] t = "T6" -> <<"P6">>
      [] t = "T7" -> <<"P7", "PC", "P8">>
      [] t = "T8" -> <<"P9">>

\* MetaIDData of a pin as ParseAllPINs returns it, with the fields of the
\* JSON payload (json_ok: json.Unmarshal of Content succeeds)
MetaIDData(p) ==
    CASE p = "P0" -> [pin_id |-> "P0", operation |-> "create", path |-> ProtocolPath,
                      json_ok |-> TRUE, code |-> "metafile://Ahtml", content |-> "",
                      owner_address |-> "addrA", real_address |-> "addrB"]
      [] p = "P1" -> [pin_id |-> "P1", operation |-> "modify", path |-> "@P0",
                      json_ok |-> TRUE, code |-> "", content |-> "Zevil",
                      owner_address |-> "addrA", real_address |-> "addrA"]
      [] p = "P2" -> [pin_id |-> "P2", operation |-> "modify", path |-> "@P1",
                      json_ok |-> TRUE, code |-> "", content |-> "",
                      owner_address |-> "addrA", real_address |-> "addrA"]
      [] p = "P3" -> [pin_id |-> "P3", operation |-> "revoke", path |-> ProtocolPath,
                      json_ok |-> TRUE, code |-> "metafile://not-a-pin-id", content |-> "",
                      owner_address |-> "addrC", real_address |-> "addrC"]
      [] p = "P4" -> [pin_id |-> "P4", operation |-> "modify", path |-> "@P3",
                      json_ok |-> TRUE, code |-> "metafile://Amiss", content |-> "",
                      owner_address |-> "addrC", real_address |-> "addrC"]
      [] p = "P5" -> [pin_id |-> "P5", operation |-> "create", path |-> ProtocolPath,
                      json_ok |-> TRUE, code |-> "metafile://Ahtml", content |-> "",
                      owner_address |-> "addrE", real_address |-> "addrE"]
      [] p = "P6" -> [pin_id |-> "P6", operation |-> "modify", path |-> "@P5",
                      json_ok |-> TRUE, code |-> "metafile://Ajs", content |-> "",
                      owner_address |-> "addrE", real_address |-> "addrE"]
      [] p = "P7" -> [pin_id |-> "P7", operation |-> "create", path |-> ProtocolPath,
                      json_ok |-> FALSE, code |-> "", content |-> "",
                      owner_address |-> "addrF", real_address |-> "addrF"]
      [] p = "P8" -> [pin_id |-> "P8", operation |-> "create", path |-> ProtocolPath,
                      json_ok |-> TRUE, code |-> "metafile://Ahtml", content |-> "",
                      owner_address |-> "addrF", real_address |-> "addrF"]
      [] p = "P9" -> [pin_id |-> "P9", operation |-> "create", path |-> ProtocolPath,
                      json_ok |-> TRUE, code |-> "metafile://Ajs", content |-> "",
                      owner_address |-> "addrG", real_address |-> "addrG"]
      [] p = "PA" -> [pin_id |-> "PA", operation |-> "modify", path |-> "@PB",
                      json_ok |-> TRUE, code |-> "", content |-> "",
                      owner_address |-> "addrD", real_address |-> "addrD"]
      [] p = "PB" -> [pin_id |-> "PB", operation |-> "modify", path |-> "@PA",
                      json_ok |-> TRUE, code |-> "", content |-> "",
                      owner_address |-> "addrD", real_address |-> "addrD"]
      [] p = "PC" -> [pin_id |-> "PC", operation |-> "modify", path |-> "@PA",
                      json_ok |-> TRUE, code |-> "", content |-> "",
                      owner_address |-> "addrD", real_address |-> "addrD"]

(***************************************************************************)
(* Strings.                                                                *)
(***************************************************************************)
\* strings.HasPrefix(s, "@") / strings.TrimPrefix(s, "@")
HasAtPrefix(s) == \E b \in PinIDs \cup {""} : s = "@" \o b
TrimAtPrefix(s) ==
    IF HasAtPrefix(s) THEN CHOOSE b \in PinIDs \cup {""} : s = "@" \o b ELSE s

\* strings.HasPrefix(s, "metafile://") / strings.TrimPrefix(s, "metafile://")
HasMetafilePrefix(s) == \E b \in FileIds \cup {""} : s = "metafile://" \o b
TrimMetafilePrefix(s) ==
    IF HasMetafilePrefix(s)
    THEN CHOOSE b \in FileIds \cup {""} : s = "metafile://" \o b
    ELSE s

(***************************************************************************)
(* Maps (a Pebble collection is a map from key to value).                  *)
(***************************************************************************)
Put(f, k, v) == [x \in (DOMAIN f) \cup {k} |-> IF x = k THEN v ELSE f[x]]
Del(f, K) == [x \in (DOMAIN f) \ K |-> f[x]]

VARIABLES
    pin,            \* collection pin:        pin_id -> MetaApp
    latest,         \* collection latest:     first_pin_id -> MetaApp
    history,        \* collection history:    first_pin_id -> sequence of MetaApp
    by_creator,     \* collection by_creator: <<creator_meta_id, reverse_ts, first_pin_id>> -> MetaApp
    by_time,        \* collection by_time:    <<reverse_ts, first_pin_id>> -> MetaApp
    deploy_queue,   \* collection deploy_queue:  <<reverse_ts, pin_id>> -> MetaAppDeployQueue
    deploy_result,  \* collection deploy_result: pin_id -> MetaAppDeployFileContent
    sync_status,    \* collection sync_status of the one chain: <<>> or <<CurrentSyncHeight>>
    now,            \* the wall clock (time.Now().UnixMilli())
    blocks,         \* the node's chain: blocks[h] is the block at height h
    currentHeight,  \* BlockScanner.Start: currentHeight
    latestHeight,   \* BlockScanner.Start: latestHeight of the current batch
    scanning,       \* BlockScanner.Start is inside the batch loop
    zmqEnabled,     \* BlockScanner.zmqEnabled
    zmqStarted,     \* BlockScanner.Start: zmqStarted
    configStartHeight, \* conf.Cfg.Indexer.StartHeight (or the chain's init height)
    chainTxs,       \* the transactions that are ever broadcast in this run
    drained,        \* drained[h]: how often block h was drained into the handler (0, 1, 2 = more than once)
    fs,             \* the files on disk: a set of paths (sequences of segments)
    queueItem,      \* processNextDeployItem: queueItem of the last tick (<<>>: the queue was empty)
    deployErr,      \* processNextDeployItem: the error deployMetaApp returned in the last tick ("": none)
    task,           \* task[g]: where goroutine g (the scanner, the ZMQ listener) is inside handleTransaction
    redeployReq,    \* RedeployMetaApp: <<pinID>> of the last request (<<>>: none yet)
    redeployErr,    \* RedeployMetaApp: the error the last request returned ("": none)
    archive,        \* unzipFile: the entry names (r.File) of the archive at zipPath
    unzipDir,       \* unzipFile: the first_pin_id whose deploy root is targetDir
    unzipErr,       \* unzipFile: the error returned ("": none)
    listeners,      \* ZMQClient.Start: the listen goroutines started in this run of the process
    inbox,          \* the rawtx messages the subscriber socket holds, oldest first
    walk,           \* one call of extractFirstPinIDFromOriginalPath, recursion by recursion
    storeErrors,    \* the pins whose database write returned an error in the last block scan
    shutdown,       \* main: where the main goroutine stands, and the goroutines that called
                    \* the database after it was closed
    crashed         \* <<>>, or <<[height, expected]>>: the process died inside the block at
                    \* that height; expected are the stores an uninterrupted scan of it leaves

storeVars == <<pin, latest, history, by_creator, by_time, deploy_queue>>
vars == <<pin, latest, history, by_creator, by_time, deploy_queue, deploy_result,
          sync_status, now, blocks, currentHeight, latestHeight, scanning,
          zmqEnabled, zmqStarted, configStartHeight, chainTxs, drained, fs,
          queueItem, deployErr, task, redeployReq, redeployErr, archive, unzipDir,
          unzipErr, listeners, inbox, crashed, storeErrors, shutdown, walk>>
deployVars == <<deploy_result, fs, queueItem, deployErr>>
redeployVars == <<redeployReq, redeployErr>>
unzipVars == <<archive, unzipDir, unzipErr>>
zmqVars == <<listeners, inbox>>
faultVars == <<crashed, storeErrors, shutdown>>

\* the collections the ingest handler writes, as one value
Store == [pin |-> pin, latest |-> latest, history |-> history,
          by_creator |-> by_creator, by_time |-> by_time,
          deploy_queue |-> deploy_queue]

EmptyStore == [pin |-> <<>>, latest |-> <<>>, history |-> <<>>,
               by_creator |-> <<>>, by_time |-> <<>>, deploy_queue |-> <<>>]

(***************************************************************************)
(* Keys.  A key is the text <decimal>:<id>; Pebble orders keys bytewise.   *)
(***************************************************************************)
RECURSIVE FormatInt(_)
\* strconv.FormatInt(n, 10) as character codes (n >= 0 in the model)
FormatInt(n) ==
    IF n < 10 THEN <<48 + n>> ELSE FormatInt(n \div 10) \o <<48 + (n % 10)>>

\* the characters of an id of the model ("P0" < "P1" < ... bytewise)
IdChars(id) ==
    CASE id = "P0" -> <<80, 48>>
      [] id = "P1" -> <<80, 49>>
      [] id = "P2" -> <<80, 50>>
      [] id = "P3" -> <<80, 51>>
      [] id = "P4" -> <<80, 52>>
      [] id = "P5" -> <<80, 53>>
      [] id = "P6" -> <<80, 54>>
      [] id = "P7" -> <<80, 55>>
      [] id = "P8" -> <<80, 56>>
      [] id = "P9" -> <<80, 57>>
      [] id = "PA" -> <<80, 65>>
      [] id = "PB" -> <<80, 66>>
      [] id = "PC" -> <<80, 67>>
      [] OTHER -> <<>>

\* the bytes of the key reverseTimestampKey + ":" + id
KeyBytes(k) == FormatInt(k[1]) \o <<58>> \o IdChars(k[2])

RECURSIVE BytesLess(_, _)
\* bytes.Compare(a, b) < 0
BytesLess(a, b) ==
    IF b = <<>> THEN FALSE
    ELSE IF a = <<>> THEN TRUE
    ELSE IF Head(a) # Head(b) THEN Head(a) < Head(b)
    ELSE BytesLess(Tail(a), Tail(b))

\* iter.First() over a collection with keys K (K not empty)
FirstKey(K) ==
    CHOOSE k \in K : \A j \in K : j = k \/ BytesLess(KeyBytes(k), KeyBytes(j))

\* reverseTimestamp := int64(^uint64(0)>>1) - timestamp
ReverseTimestamp(ts) == MaxInt64 - ts

(***************************************************************************)
(* The Pebble database: MetaApp operations                               *)
(***************************************************************************)
RECURSIVE BubbleLeft(_, _)
\* the inner loop of the insertion sort sort.Slice runs on a slice of at most
\* 12 elements: data[j] moves left while less(data[j], data[j-1])
BubbleLeft(s, j) ==
    IF j > 1 /\ s[j].timestamp > s[j - 1].timestamp
    THEN BubbleLeft([s EXCEPT ![j] = s[j - 1], ![j - 1] = s[j]], j - 1)
    ELSE s

RECURSIVE SortFrom(_, _)
SortFrom(s, i) == IF i > Len(s) THEN s ELSE SortFrom(BubbleLeft(s, i), i + 1)

\* sort.Slice(history, func(i, j) bool { return history[i].Timestamp > history[j].Timestamp })
SortByTimestampDesc(s) == SortFrom(s, 2)

\* variant of addToHistory that appends without sorting
addToHistoryUnsorted(hist, firstPinID, app) ==
    LET old == IF firstPinID \in DOMAIN hist THEN hist[firstPinID] ELSE <<>>
    IN  Put(hist, firstPinID, Append(old, app))

\* addToHistory: read the list, append, sort, write
addToHistory(hist, firstPinID, app) ==
    LET old == IF firstPinID \in DOMAIN hist THEN hist[firstPinID] ELSE <<>>
    IN  Put(hist, firstPinID, SortByTimestampDesc(Append(old, app)))

\* the stale by_creator keys CreateMetaApp deletes: the scan is bounded to the
\* prefix of the new record's creator_meta_id
StaleCreatorKeys(S, app, firstPinID, key) ==
    {k \in DOMAIN S.by_creator :
        k[1] = app.creator_meta_id /\ k[3] = firstPinID /\ k # key}

\* the stale by_time keys CreateMetaApp deletes (scan of the whole collection)
StaleTimeKeys(S, firstPinID, key) ==
    {k \in DOMAIN S.by_time : k[2] = firstPinID /\ k # key}

CreateMetaApp(S, app0) ==
    LET firstPinID == IF app0.first_pin_id = "" THEN app0.pin_id ELSE app0.first_pin_id
        app == [app0 EXCEPT !.first_pin_id = firstPinID]
        rts == ReverseTimestamp(app.timestamp)
        ckey == <<app.creator_meta_id, rts, firstPinID>>
        tkey == <<rts, firstPinID>>
    IN  [S EXCEPT
            !.pin = Put(S.pin, app.pin_id, app),
            !.latest = Put(S.latest, firstPinID, app),
            !.history = addToHistory(S.history, firstPinID, app),
            !.by_creator =
                Put(Del(S.by_creator, StaleCreatorKeys(S, app, firstPinID, ckey)), ckey, app),
            !.by_time =
                Put(Del(S.by_time, StaleTimeKeys(S, firstPinID, tkey)), tkey, app)]

\* UpdateMetaApp: "simply recreate (overwrite)"
UpdateMetaApp(S, app) == CreateMetaApp(S, app)

(***************************************************************************)
(* The Pebble database: deploy queue operations                          *)
(***************************************************************************)
\* AddToDeployQueue: Set at key reverse_timestamp:pin_id
AddToDeployQueue(queue, item) ==
    Put(queue, <<ReverseTimestamp(item.timestamp), item.pin_id>>, item)

\* the keys whose value has this pin_id
QueueKeysOf(queue, pinID) == {k \in DOMAIN queue : queue[k].pin_id = pinID}

\* GetNextDeployQueueItem: the value at iter.First()
HasNextDeployQueueItem(queue) == DOMAIN queue # {}
GetNextDeployQueueItem(queue) == queue[FirstKey(DOMAIN queue)]

\* UpdateDeployQueueItem: overwrite the first entry with this pin_id
UpdateDeployQueueItem(queue, item) ==
    IF QueueKeysOf(queue, item.pin_id) = {} THEN queue
    ELSE Put(queue, FirstKey(QueueKeysOf(queue, item.pin_id)), item)

\* RemoveFromDeployQueue: delete the first entry with this pin_id
RemoveFromDeployQueue(queue, pinID) ==
    IF QueueKeysOf(queue, pinID) = {} THEN queue
    ELSE Del(queue, {FirstKey(QueueKeysOf(queue, pinID))})

(***************************************************************************)
(* indexer_service.go: the ingest handler                                  *)
(***************************************************************************)
\* isMetaAppPath: <<isMetaApp, isPinID>>.  The paths of the model are the
\* protocol path, "@<pin id>" and the empty path.
isMetaAppPath(path) ==
    IF path = "" THEN <<FALSE, FALSE>>
    ELSE IF path = ProtocolPath THEN <<TRUE, FALSE>>
    ELSE IF HasAtPrefix(path) THEN <<TRUE, TRUE>>
    ELSE <<FALSE, FALSE>>

\* calculateMetaID: hex(SHA-256(address)), "" for the empty address
calculateMetaID(address) == IF address = "" THEN "" ELSE "sha256:" \o address

\* variant of ensureMillisecondTimestamp that also multiplies the limit itself
ensureMillisecondTimestampInclusive(timestamp) ==
    IF timestamp <= SecondsLimit THEN timestamp * 1000 ELSE timestamp

\* ensureMillisecondTimestamp
ensureMillisecondTimestamp(timestamp) ==
    IF timestamp < SecondsLimit THEN timestamp * 1000 ELSE timestamp

Found(id) == [err |-> FALSE, id |-> id]
NotResolved == [err |-> TRUE, id |-> ""]

\* variant of findFirstPinIDRecursive that stops at the referenced record
findFirstPinIDOfParent(pins, pinID, visited) ==
    IF pinID \in visited THEN NotResolved
    ELSE IF pinID \notin DOMAIN pins THEN NotResolved
    ELSE Found(pinID)

RECURSIVE findFirstPinIDRecursive(_, _, _)
\* findFirstPinIDRecursive(pinID, visited) over the pin collection pins
findFirstPinIDRecursive(pins, pinID, visited) ==
    IF pinID \in visited THEN NotResolved              \* circular reference detected
    ELSE IF pinID \notin DOMAIN pins THEN NotResolved  \* MetaApp not found
    ELSE
      LET metaApp == pins[pinID]
          seen == visited \cup {pinID}
      IN  IF metaApp.operation = "create"
          THEN IF metaApp.first_pin_id # "" THEN Found(metaApp.first_pin_id)
               ELSE Found(metaApp.pin_id)
          ELSE IF metaApp.operation = "modify"
          THEN IF metaApp.first_pin_id # ""
               THEN IF metaApp.first_pin_id # pinID
                    THEN findFirstPinIDRecursive(pins, metaApp.first_pin_id, seen)
                    ELSE Found(metaApp.first_pin_id)
               ELSE IF metaApp.path # "" /\ HasAtPrefix(metaApp.path)
                       /\ TrimAtPrefix(metaApp.path) # ""
                       /\ TrimAtPrefix(metaApp.path) # pinID
                    THEN findFirstPinIDRecursive(pins, TrimAtPrefix(metaApp.path), seen)
                    ELSE Found(pinID)
          ELSE Found(pinID)                            \* other operation types

\* variant of extractFirstPinIDFromOriginalPath that takes a pin that is not
\* stored to be the first pin itself
extractFirstPinIDAssumingRoot(pins, path) ==
    IF path = "" THEN NotResolved
    ELSE IF TrimAtPrefix(path) = "" THEN NotResolved
    ELSE IF TrimAtPrefix(path) \notin DOMAIN pins THEN Found(TrimAtPrefix(path))
    ELSE findFirstPinIDRecursive(pins, TrimAtPrefix(path), {})

\* extractFirstPinIDFromOriginalPath
extractFirstPinIDFromOriginalPath(pins, path) ==
    IF path = "" THEN NotResolved
    ELSE IF TrimAtPrefix(path) = "" THEN NotResolved
    ELSE findFirstPinIDRecursive(pins, TrimAtPrefix(path), {})

\* addToDeployQueue: the item of a MetaApp, or the queue unchanged when the
\* record names no artifact
CodePinID(metaApp) ==
    IF metaApp.code # "" THEN metaApp.code
    ELSE IF metaApp.content = "" THEN ""
    ELSE IF HasMetafilePrefix(metaApp.content) THEN metaApp.content
    ELSE "metafile://" \o metaApp.content

addToDeployQueue(queue, metaApp) ==
    IF CodePinID(metaApp) = "" THEN queue
    ELSE AddToDeployQueue(queue,
            [first_pin_id |-> metaApp.first_pin_id, pin_id |-> metaApp.pin_id,
             timestamp |-> metaApp.timestamp, content |-> metaApp.content,
             code |-> CodePinID(metaApp), try_count |-> 0])

\* the record processMetaAppContent / processMetaAppModify build
NewMetaApp(metaData, firstPinID, height, timestamp, rpcOk) ==
    LET creatorAddress == IF rpcOk THEN metaData.real_address ELSE metaData.owner_address
    IN  [first_pin_id |-> firstPinID, pin_id |-> metaData.pin_id,
         path |-> metaData.path, operation |-> metaData.operation,
         content |-> metaData.content, code |-> metaData.code,
         block_height |-> height,
         timestamp |-> ensureMillisecondTimestamp(timestamp),
         creator_meta_id |-> calculateMetaID(creatorAddress)]

\* Create, then addToDeployQueue (whose error is only logged)
SaveAndEnqueue(S, metaApp) ==
    LET S1 == CreateMetaApp(S, metaApp)
    IN  [S1 EXCEPT !.deploy_queue = addToDeployQueue(S1.deploy_queue, S1.pin[metaApp.pin_id])]

\* processMetaAppContent: first_pin_id is the pin's own id
processMetaAppContent(S, metaData, height, timestamp, rpcOk) ==
    IF ~metaData.json_ok THEN S
    ELSE SaveAndEnqueue(S, NewMetaApp(metaData, metaData.pin_id, height, timestamp, rpcOk))

\* processMetaAppModify
processMetaAppModify(S, metaData, firstPinID, height, timestamp, rpcOk) ==
    IF ~metaData.json_ok THEN S
    ELSE SaveAndEnqueue(S, NewMetaApp(metaData, firstPinID, height, timestamp, rpcOk))

\* the body of handleTransaction's loop for one pin
\* variant of handlePin that also rewrites a record whose block_height equals
\* the delivered height
handlePinBumpOnEqual(S, metaData, height, timestamp, rpcOk) ==
    IF ~isMetaAppPath(metaData.path)[1] THEN S
    ELSE IF metaData.pin_id \in DOMAIN S.pin
    THEN \* already indexed: update block height if needed
         LET existingApp == S.pin[metaData.pin_id]
         IN  IF existingApp.block_height <= height /\ height > 0
             THEN UpdateMetaApp(S, [existingApp EXCEPT !.block_height = height])
             ELSE S
    ELSE IF metaData.operation = "modify" /\ metaData.path # ""
    THEN LET r == extractFirstPinIDFromOriginalPath(S.pin, metaData.path)
         IN  IF r.err \/ r.id = "" THEN S
             ELSE processMetaAppModify(S, metaData, r.id, height, timestamp, rpcOk)
    ELSE IF metaData.operation = "create" /\ isMetaAppPath(metaData.path)[2] THEN S
    ELSE processMetaAppContent(S, metaData, height, timestamp, rpcOk)

handlePin(S, metaData, height, timestamp, rpcOk) ==
    IF ~isMetaAppPath(metaData.path)[1] THEN S
    ELSE IF metaData.pin_id \in DOMAIN S.pin
    THEN \* already indexed: update block height if needed
         LET existingApp == S.pin[metaData.pin_id]
         IN  IF existingApp.block_height < height /\ height > 0
             THEN UpdateMetaApp(S, [existingApp EXCEPT !.block_height = height])
             ELSE S
    ELSE IF metaData.operation = "modify" /\ metaData.path # ""
    THEN LET r == extractFirstPinIDFromOriginalPath(S.pin, metaData.path)
         IN  IF r.err \/ r.id = "" THEN S
             ELSE processMetaAppModify(S, metaData, r.id, height, timestamp, rpcOk)
    ELSE IF metaData.operation = "create" /\ isMetaAppPath(metaData.path)[2] THEN S
    ELSE processMetaAppContent(S, metaData, height, timestamp, rpcOk)

RECURSIVE handlePins(_, _, _, _, _)
handlePins(S, pins, height, timestamp, rpcOk) ==
    IF pins = <<>> THEN S
    ELSE handlePins(handlePin(S, MetaIDData(Head(pins)), height, timestamp, rpcOk),
                    Tail(pins), height, timestamp, rpcOk)

\* handleTransaction(tx, metaDataTx, height, timestamp)
handleTransaction(S, tx, height, timestamp, rpcOk) ==
    handlePins(S, TxPins(tx), height, timestamp, rpcOk)

RECURSIVE handleTransactions(_, _, _, _, _)
\* ScanBlock: the handler on every transaction of the block, in block order
handleTransactions(S, txs, height, timestamp, rpcOk) ==
    IF txs = <<>> THEN S
    ELSE handleTransactions(handleTransaction(S, Head(txs), height, timestamp, rpcOk),
                            Tail(txs), height, timestamp, rpcOk)

(***************************************************************************)
(* indexer_service.go: the deploy worker.  A path is a sequence of         *)
(* segments; the disk is the set of the paths of its files.                *)
(***************************************************************************)
\* conf.Cfg.MetaApp.DeployFilePath
DeployBaseDir == <<"meta_app_deploy_data">>

RECURSIVE Clean(_)
\* filepath.Clean of a relative path: "." and the empty segment (a doubled
\* separator) are dropped, ".." removes the segment before it (and stays when
\* there is none)
Clean(path) ==
    IF path = <<>> THEN <<>>
    ELSE LET front == Clean(SubSeq(path, 1, Len(path) - 1))
             last == path[Len(path)]
         IN  IF last = "." \/ last = "" THEN front
             ELSE IF last = ".." /\ front # <<>> /\ front[Len(front)] # ".."
                  THEN SubSeq(front, 1, Len(front) - 1)
             ELSE Append(front, last)

\* filepath.Join(dir, name)
Join(dir, name) == Clean(dir \o name)

\* variant of HasDirPrefix that compares with the directory above targetDir
HasDirPrefixOfParent(fpath, targetDir) ==
    /\ Len(fpath) >= Len(Clean(targetDir))
    /\ SubSeq(fpath, 1, Len(Clean(targetDir)) - 1)
           = SubSeq(Clean(targetDir), 1, Len(Clean(targetDir)) - 1)

\* strings.HasPrefix(fpath, filepath.Clean(targetDir) + "/")
HasDirPrefix(fpath, targetDir) ==
    /\ Len(fpath) > Len(Clean(targetDir))
    /\ SubSeq(fpath, 1, Len(Clean(targetDir))) = Clean(targetDir)

\* the files below a directory
FilesUnder(disk, dir) == {f \in disk : HasDirPrefix(f, dir)}

\* the content store (metafs): GET /api/v1/files/<id>.  Data is present for
\* the ids the store holds.
MetafsFileInfo(id) ==
    CASE id = "Ahtml" -> [found |-> TRUE, file_extension |-> ".html",
                          file_name |-> "app.html"]
      [] id = "Ajs" -> [found |-> TRUE, file_extension |-> ".js",
                        file_name |-> "app.js"]
      [] id = "Zevil" -> [found |-> TRUE, file_extension |-> ".zip",
                          file_name |-> "Zevil.zip"]
      [] OTHER -> [found |-> FALSE, file_extension |-> "", file_name |-> ""]

\* the entries of the zip archives of the content store, in archive order
\* (none of them is a directory entry)
ZipEntries(fileName) ==
    IF fileName = "Zevil.zip"
    THEN << <<"a.js">>, <<"..", "..", "evil">>, <<"b.js">> >>
    ELSE <<>>

\* strings.HasSuffix(strings.ToLower(filePath), ".zip")
HasZipSuffix(fileName) == fileName \in {"Zevil.zip"}

\* what the content store and the disk do during one deploy: the store
\* answers, answers with code # 0, answers the download with a status other
\* than 200, or os.Create fails
DeployOutcomes == {"ok", "code", "status", "create"}

\* isValidMetafilePinID
isValidMetafilePinID(pinID) ==
    /\ HasMetafilePrefix(pinID)
    /\ TrimMetafilePrefix(pinID) \in WellFormedIds

\* downloadFileFromMetafs: [err, fileName, disk]
downloadFileFromMetafs(disk, pinID, targetDir, outcome) ==
    LET fileInfo == MetafsFileInfo(pinID)
        fileName == IF fileInfo.file_extension \in {".html", ".htm"}
                    THEN "index.html"
                    ELSE IF fileInfo.file_name # "" THEN fileInfo.file_name
                    ELSE pinID \o fileInfo.file_extension
        fail(msg) == [err |-> msg, fileName |-> "", disk |-> disk]
    IN  IF outcome = "code" \/ ~fileInfo.found
        THEN fail("file not found in metafs")
        ELSE IF outcome = "status"
        THEN fail("metafs returned status for file download")
        ELSE IF outcome = "create"
        THEN fail("failed to create file")
        ELSE [err |-> "", fileName |-> fileName,
              disk |-> disk \cup {Join(targetDir, <<fileName>>)}]

\* downloadFileFromPinID
downloadFileFromPinID(disk, pinID, targetDir, outcome) ==
    IF ~isValidMetafilePinID(pinID)
    THEN [err |-> "invalid pinId format", fileName |-> "", disk |-> disk]
    ELSE downloadFileFromMetafs(disk, TrimMetafilePrefix(pinID), targetDir, outcome)

RECURSIVE unzipFile(_, _, _)
\* unzipFile over the entries left: [err, disk].  Every entry before an
\* entry with a path outside targetDir is written.
unzipFile(disk, entries, targetDir) ==
    IF entries = <<>> THEN [err |-> "", disk |-> disk]
    ELSE LET fpath == Join(targetDir, Head(entries))
         IN  IF ~HasDirPrefix(fpath, targetDir)
             THEN [err |-> "invalid file path", disk |-> disk]
             ELSE unzipFile(disk \cup {fpath}, Tail(entries), targetDir)

\* the MetaAppDeployFileContent deployMetaApp writes
DeployFileContent(metaApp, item, status, dir, message) ==
    [first_pin_id |-> metaApp.first_pin_id, pin_id |-> metaApp.pin_id,
     content |-> item.content, code |-> item.code, deploy_status |-> status,
     deploy_file_path |-> dir, deploy_message |-> message]

\* deployMetaApp: [err, results, disk]
deployMetaApp(pins, results, disk, item, outcome) ==
    IF item.pin_id \notin DOMAIN pins
    THEN [err |-> "failed to get MetaApp", results |-> results, disk |-> disk]
    ELSE
    LET metaApp == pins[item.pin_id]
        appDeployDir == Join(DeployBaseDir, <<metaApp.first_pin_id>>)
        cleared == disk \ FilesUnder(disk, appDeployDir)
        pinIDToDownload == CodePinID(item)
        dl == downloadFileFromPinID(cleared, pinIDToDownload, appDeployDir, outcome)
        uz == unzipFile(dl.disk, ZipEntries(dl.fileName), appDeployDir)
    IN  IF pinIDToDownload = ""
        THEN [err |-> "no pinId to download", results |-> results, disk |-> cleared]
        ELSE IF ~isValidMetafilePinID(pinIDToDownload)
        THEN [err |-> "invalid pinId format", results |-> results, disk |-> cleared]
        ELSE IF dl.err # ""
        THEN [err |-> "failed to download file: " \o dl.err,
              results |-> Put(results, metaApp.pin_id,
                              DeployFileContent(metaApp, item, "failed",
                                                appDeployDir, dl.err)),
              disk |-> cleared]
        ELSE [err |-> "",
              results |-> Put(results, metaApp.pin_id,
                              DeployFileContent(metaApp, item, "completed",
                                                appDeployDir, "")),
              disk |-> IF ~HasZipSuffix(dl.fileName) THEN dl.disk
                       ELSE IF uz.err # "" THEN uz.disk
                       ELSE uz.disk \ {Join(appDeployDir, <<dl.fileName>>)}]

\* variant of processNextDeployItem that gives up only above the ceiling
processNextDeployItemAboveCeiling(queue, item, r) ==
    IF r.err # ""
    THEN IF item.try_count + 1 > maxRetryCount
         THEN RemoveFromDeployQueue(queue, item.pin_id)
         ELSE UpdateDeployQueueItem(queue, [item EXCEPT !.try_count = @ + 1])
    ELSE RemoveFromDeployQueue(queue, item.pin_id)

\* processNextDeployItem, after deployMetaApp returned r for item: the queue
processNextDeployItem(queue, item, r) ==
    IF r.err # ""
    THEN IF item.try_count + 1 >= maxRetryCount
         THEN RemoveFromDeployQueue(queue, item.pin_id)
         ELSE UpdateDeployQueueItem(queue, [item EXCEPT !.try_count = @ + 1])
    ELSE RemoveFromDeployQueue(queue, item.pin_id)

(***************************************************************************)
(* IndexerAppService: the redeploy entry point                             *)
(***************************************************************************)
\* GetDeployQueueItem: is there an entry with this pin_id
HasDeployQueueItem(queue, pinID) == QueueKeysOf(queue, pinID) # {}

\* the error RedeployMetaApp returns for a version that is already queued
AlreadyInQueue(pinID) == "MetaApp " \o pinID \o " is already in deploy queue"

\* variant of RedeployItem that queues the first version of the app
RedeployItemOfFirstPin(latestMap, queue, firstPinID, checkedPinID) ==
    LET fristMetaApp == latestMap[firstPinID]
    IN  IF HasDeployQueueItem(queue, checkedPinID)
        THEN [err |-> AlreadyInQueue(fristMetaApp.pin_id), queue |-> queue]
        ELSE IF CodePinID(fristMetaApp) = ""
        THEN [err |-> "no code or content pinId found for MetaApp " \o firstPinID,
              queue |-> queue]
        ELSE [err |-> "",
              queue |-> AddToDeployQueue(queue,
                  [first_pin_id |-> "", pin_id |-> firstPinID,
                   timestamp |-> fristMetaApp.timestamp,
                   content |-> fristMetaApp.content,
                   code |-> CodePinID(fristMetaApp), try_count |-> 0])]

\* RedeployMetaApp with the queue looked up for deployPinId, then the item
\* built from fristMetaApp and added: [err, queue]
RedeployItem(latestMap, queue, firstPinID, checkedPinID) ==
    LET fristMetaApp == latestMap[firstPinID]
        deployPinId == fristMetaApp.pin_id
    IN  IF HasDeployQueueItem(queue, checkedPinID)
        THEN [err |-> AlreadyInQueue(deployPinId), queue |-> queue]
        ELSE IF CodePinID(fristMetaApp) = ""
        THEN [err |-> "no code or content pinId found for MetaApp " \o deployPinId,
              queue |-> queue]
        ELSE [err |-> "",
              queue |-> AddToDeployQueue(queue,
                  [first_pin_id |-> "", pin_id |-> deployPinId,
                   timestamp |-> fristMetaApp.timestamp,
                   content |-> fristMetaApp.content,
                   code |-> CodePinID(fristMetaApp), try_count |-> 0])]

\* variant of RedeployMetaApp that looks the queue up for the requested pin
RedeployMetaAppCheckingRequested(pins, latestMap, queue, pinID) ==
    IF pinID \notin DOMAIN pins
    THEN [err |-> "failed to get MetaApp: not found", queue |-> queue]
    ELSE IF pins[pinID].first_pin_id \notin DOMAIN latestMap
    THEN [err |-> "not found", queue |-> queue]
    ELSE RedeployItem(latestMap, queue, pins[pinID].first_pin_id, pinID)

\* RedeployMetaApp(pinID): [err, queue]
RedeployMetaApp(pins, latestMap, queue, pinID) ==
    IF pinID \notin DOMAIN pins
    THEN [err |-> "failed to get MetaApp: not found", queue |-> queue]
    ELSE IF pins[pinID].first_pin_id \notin DOMAIN latestMap
    THEN [err |-> "not found", queue |-> queue]
    ELSE RedeployItem(latestMap, queue, pins[pinID].first_pin_id,
                      latestMap[pins[pinID].first_pin_id].pin_id)

(***************************************************************************)
(* indexer_service.go: construction of the service                         *)
(***************************************************************************)
\* variant of StartHeight that takes the configured height whatever the cursor
StartHeightFromConfig(status, config) ==
    IF config > 0 THEN config ELSE 0

\* NewIndexerServiceWithChain: the height the scanner starts from
StartHeight(status, config) ==
    LET currentSyncHeight == IF status # <<>> /\ status[1] > 0 THEN status[1] ELSE 0
    IN  IF currentSyncHeight > config THEN currentSyncHeight + 1
        ELSE IF config > 0 THEN config
        ELSE 0

\* initializeSyncStatus: creates the status only if none exists
initializeSyncStatus(status, startHeight) ==
    IF status # <<>> THEN status
    ELSE IF startHeight > 0 THEN <<startHeight - 1>>
    ELSE <<0>>

\* UpdateIndexerSyncStatusHeight: fails (and writes nothing) without a status
UpdateIndexerSyncStatusHeight(status, height) ==
    IF status = <<>> THEN status ELSE <<height>>

(***************************************************************************)
(* The node                                                                *)
(***************************************************************************)
TxsOf(block) == {block.txs[i] : i \in 1..Len(block.txs)}
Mined == UNION {TxsOf(blocks[h]) : h \in 1..Len(blocks)}

\* the transaction lists a new block can carry
NewBlockTxs ==
    {txs \in UNION {[1..n -> chainTxs \ Mined] : n \in 1..MaxBlockTxs} :
        \A i, j \in 1..Len(txs) : i # j => txs[i] # txs[j]}

\* getblock: the block at a height; height 0 is the genesis block
BlockAt(h) == IF h = 0 THEN [ts |-> SecondsLimit, txs |-> <<>>] ELSE blocks[h]

(***************************************************************************)
(* Actions                                                                 *)
(***************************************************************************)
\* the goroutines that call the transaction handler: BlockScanner.Start
\* (through ScanBlock) and ZMQClient.listen (through handleRawTx)
Goroutines == {"scanner", "zmq"}
IdleTask == [pc |-> "idle", pins |-> <<>>, height |-> 0, timestamp |-> 0, first |-> ""]

scannerVars == <<currentHeight, latestHeight, scanning, zmqStarted>>
configVars == <<zmqEnabled, configStartHeight, chainTxs>>

SetStore(S) ==
    /\ pin' = S.pin
    /\ latest' = S.latest
    /\ history' = S.history
    /\ by_creator' = S.by_creator
    /\ by_time' = S.by_time
    /\ deploy_queue' = S.deploy_queue

\* variant of StartWithRawTx that starts a listener at every catch-up
StartWithRawTxEveryTime(started, enabled, running) ==
    IF enabled THEN running + 1 ELSE running

\* BlockScanner.Start at catch-up: StartWithRawTx is called when ZMQ is
\* enabled and not started yet, and starts one listen goroutine (AddTopic
\* leaves the topic list non-empty, so ZMQClient.Start cannot fail)
StartWithRawTx(started, enabled, running) ==
    IF ~started /\ enabled THEN running + 1 ELSE running

\* the wall clock advances
Tick ==
    /\ now < SecondsLimit + MaxTicks
    /\ now' = now + 1
    /\ UNCHANGED <<storeVars, deployVars, redeployVars, unzipVars, faultVars, walk, zmqVars, task, sync_status, blocks, scannerVars,
                   configVars, drained>>

\* the node mines a block of transactions not mined before; its header
\* timestamp is the time of mining
MineBlock ==
    /\ Len(blocks) < MaxBlocks
    /\ \E txs \in NewBlockTxs : blocks' = Append(blocks, [ts |-> now, txs |-> txs])
    /\ UNCHANGED <<storeVars, deployVars, redeployVars, unzipVars, faultVars, walk, zmqVars, task, sync_status, now, scannerVars,
                   configVars, drained>>

\* BlockScanner.Start: GetBlockCount finds new blocks, the batch loop begins
PollNewBlocks ==
    /\ ~scanning
    /\ currentHeight <= Len(blocks)
    /\ latestHeight' = Len(blocks)
    /\ scanning' = TRUE
    /\ UNCHANGED <<storeVars, deployVars, redeployVars, unzipVars, faultVars, walk, zmqVars, task, sync_status, now, blocks,
                   currentHeight, zmqStarted, configVars, drained>>

\* BlockScanner.Start: GetBlockCount finds no new block ("already at latest
\* block"); ZMQ is started if it is enabled and not started yet
PollAtTip ==
    /\ ~scanning
    /\ currentHeight > Len(blocks)
    /\ latestHeight' = Len(blocks)
    /\ zmqStarted' = (zmqStarted \/ zmqEnabled)
    /\ listeners' = StartWithRawTx(zmqStarted, zmqEnabled, listeners)
    /\ UNCHANGED <<storeVars, deployVars, redeployVars, unzipVars, faultVars, walk, inbox, task, sync_status, now, blocks,
                   currentHeight, scanning, configVars, drained>>

\* variant of ScanBlockWith that moves on when the block could not be fetched
ScanBlockSkippingWith(fetched, written) ==
    /\ scanning
    /\ currentHeight <= latestHeight
    /\ IF ~fetched
       THEN /\ currentHeight' = currentHeight + 1
            /\ UNCHANGED <<storeVars, sync_status, drained>>
       ELSE /\ \E rpcOk \in BOOLEAN :
                 SetStore(handleTransactions(Store, BlockAt(currentHeight).txs,
                                             currentHeight,
                                             BlockAt(currentHeight).ts, rpcOk))
            /\ sync_status' = IF written
                              THEN UpdateIndexerSyncStatusHeight(sync_status, currentHeight)
                              ELSE sync_status
            /\ currentHeight' = currentHeight + 1
            /\ drained' = [drained EXCEPT ![currentHeight] = IF @ < 2 THEN @ + 1 ELSE 2]
    /\ UNCHANGED <<deployVars, redeployVars, unzipVars, faultVars, walk, zmqVars, task, now, blocks, latestHeight, scanning, zmqStarted,
                   configVars>>

\* BlockScanner.Start, one turn of the batch loop.  ScanBlock(currentHeight)
\* fails before any handler call when the block cannot be fetched or decoded
\* (GetBlockMsg), and the turn is repeated; otherwise it hands every
\* transaction to the handler, then onBlockComplete writes the cursor (an
\* error of the write is only logged), then currentHeight++
ScanBlockWith(fetched, written) ==
    /\ scanning
    /\ currentHeight <= latestHeight
    /\ IF ~fetched
       THEN UNCHANGED <<storeVars, sync_status, currentHeight, drained>>
       ELSE /\ \E rpcOk \in BOOLEAN :
                 SetStore(handleTransactions(Store, BlockAt(currentHeight).txs,
                                             currentHeight,
                                             BlockAt(currentHeight).ts, rpcOk))
            /\ sync_status' = IF written
                              THEN UpdateIndexerSyncStatusHeight(sync_status, currentHeight)
                              ELSE sync_status
            /\ currentHeight' = currentHeight + 1
            /\ drained' = [drained EXCEPT ![currentHeight] = IF @ < 2 THEN @ + 1 ELSE 2]
    /\ UNCHANGED <<deployVars, redeployVars, unzipVars, faultVars, walk, zmqVars, task, now, blocks, latestHeight, scanning, zmqStarted,
                   configVars>>

\* one turn of the batch loop on a database that accepts every write
ScanBlock == \E fetched \in BOOLEAN : ScanBlockWith(fetched, TRUE)

\* BlockScanner.Start: the batch is finished; ZMQ is started after the first
\* catch-up if it is enabled
FinishBatch ==
    /\ scanning
    /\ currentHeight > latestHeight
    /\ scanning' = FALSE
    /\ zmqStarted' = (zmqStarted \/ zmqEnabled)
    /\ listeners' = StartWithRawTx(zmqStarted, zmqEnabled, listeners)
    /\ UNCHANGED <<storeVars, deployVars, redeployVars, unzipVars, faultVars, walk, inbox, task, sync_status, now, blocks,
                   currentHeight, latestHeight, configVars, drained>>

\* ZMQClient.handleRawTx: a rawtx message reaches the handler with height 0
\* and the current time
MempoolTx ==
    /\ zmqStarted
    /\ \E tx \in chainTxs, rpcOk \in BOOLEAN :
         SetStore(handleTransaction(Store, tx, 0, now, rpcOk))
    /\ UNCHANGED <<deployVars, redeployVars, unzipVars, faultVars, walk, zmqVars, task, sync_status, now, blocks, scannerVars,
                   configVars, drained>>

\* the process stops and is started again on the same database:
\* NewIndexerServiceWithChain, then Start
Restart ==
    /\ currentHeight' = StartHeight(sync_status, configStartHeight)
    /\ sync_status' =
         initializeSyncStatus(sync_status, StartHeight(sync_status, configStartHeight))
    /\ latestHeight' = 0
    /\ scanning' = FALSE
    /\ zmqStarted' = FALSE
    /\ listeners' = 0
    /\ inbox' = <<>>
    /\ UNCHANGED <<storeVars, deployVars, redeployVars, unzipVars, faultVars, walk, task, now, blocks, configVars, drained>>

\* deployProcessor: one tick of the ticker runs processNextDeployItem
DeployTick ==
    /\ \E outcome \in DeployOutcomes :
         IF ~HasNextDeployQueueItem(deploy_queue)
         THEN /\ queueItem' = <<>>
              /\ deployErr' = ""
              /\ UNCHANGED <<deploy_queue, deploy_result, fs>>
         ELSE LET item == GetNextDeployQueueItem(deploy_queue)
                  r == deployMetaApp(pin, deploy_result, fs, item, outcome)
              IN  /\ deploy_queue' = processNextDeployItem(deploy_queue, item, r)
                  /\ deploy_result' = r.results
                  /\ fs' = r.disk
                  /\ deployErr' = r.err
                  /\ queueItem' = IF r.err # ""
                                  THEN <<[item EXCEPT !.try_count = @ + 1]>>
                                  ELSE <<item>>
    /\ UNCHANGED <<pin, latest, history, by_creator, by_time, sync_status, now,
                   blocks, scannerVars, configVars, drained, task, redeployVars,
                   unzipVars, faultVars, walk, zmqVars>>

\* no ancestor resolution is running
IdleWalk == [pc |-> "idle", start |-> "", pinID |-> "", visited |-> {},
             lookups |-> <<>>, err |-> FALSE, id |-> ""]

\* everything but the pin collection and the resolution
InitAround(runs, clocks) ==
    /\ latest = <<>>
    /\ history = <<>>
    /\ by_creator = <<>>
    /\ by_time = <<>>
    /\ deploy_queue = <<>>
    /\ deploy_result = <<>>
    /\ fs = {}
    /\ queueItem = <<>>
    /\ deployErr = ""
    /\ listeners = 0
    /\ inbox = <<>>
    /\ crashed = <<>>
    /\ storeErrors = {}
    /\ shutdown = [main |-> "waiting", late |-> {}]
    /\ redeployReq = <<>>
    /\ redeployErr = ""
    /\ task = [g \in Goroutines |-> IdleTask]
    /\ now \in clocks
    /\ blocks = <<>>
    /\ zmqEnabled \in BOOLEAN
    /\ configStartHeight \in 0..MaxConfigStart
    /\ chainTxs \in runs
    /\ currentHeight = StartHeight(<<>>, configStartHeight)
    /\ sync_status = initializeSyncStatus(<<>>, StartHeight(<<>>, configStartHeight))
    /\ latestHeight = 0
    /\ scanning = FALSE
    /\ zmqStarted = FALSE
    /\ drained = [h \in 0..MaxBlocks |-> 0]

InitClock(runs, clocks) ==
    /\ pin = <<>>
    /\ walk = IdleWalk
    /\ InitAround(runs, clocks)

\* the service is constructed when the clock shows the first millisecond
\* value
InitWith(runs) == InitClock(runs, {SecondsLimit})

\* no archive is being extracted
NoArchive ==
    /\ archive = <<>>
    /\ unzipDir = ""
    /\ unzipErr = ""

\* the service starts on an empty database
Init == InitWith(IngestRuns) /\ NoArchive

Next ==
    \/ Tick
    \/ MineBlock
    \/ PollNewBlocks
    \/ PollAtTip
    \/ ScanBlock
    \/ FinishBatch
    \/ MempoolTx
    \/ Restart

Spec == Init /\ [][Next]_vars

\* the service with its deploy processor started (StartDeployProcessor), on
\* a node that mines no block: pins arrive from the mempool only
NextDeploy ==
    \/ Tick
    \/ PollAtTip
    \/ MempoolTx
    \/ DeployTick

SpecDeploy == Init /\ [][NextDeploy]_vars

\* POST /metaapps/:pinId/redeploy: one call of RedeployMetaApp
Redeploy ==
    /\ \E pinID \in PinIDs :
         LET r == RedeployMetaApp(pin, latest, deploy_queue, pinID)
         IN  /\ deploy_queue' = r.queue
             /\ redeployReq' = <<pinID>>
             /\ redeployErr' = r.err
    /\ UNCHANGED <<pin, latest, history, by_creator, by_time, deployVars, task,
                   sync_status, now, blocks, scannerVars, configVars, drained,
                   unzipVars, faultVars, walk, zmqVars>>

\* the service of SpecDeploy with the redeploy route open; the requests
\* arrive within one tick of the clock
NextRedeploy ==
    \/ PollAtTip
    \/ MempoolTx
    \/ DeployTick
    \/ Redeploy

SpecRedeploy == Init /\ [][NextRedeploy]_vars

\* one turn of the batch loop on a database whose cursor write can fail
ScanBlockDiskFailing == \E fetched, written \in BOOLEAN : ScanBlockWith(fetched, written)

\* the node publishes a rawtx message; a running listener's socket queues it
MempoolArrive ==
    /\ listeners > 0
    /\ Len(inbox) < MaxInbox
    /\ \E tx \in chainTxs : inbox' = Append(inbox, tx)
    /\ UNCHANGED <<storeVars, deployVars, redeployVars, unzipVars, faultVars, walk, listeners, task, sync_status,
                   now, blocks, scannerVars, configVars, drained>>

\* variant of MempoolHandle that takes the newest message
MempoolHandleNewest ==
    /\ listeners > 0
    /\ inbox # <<>>
    /\ \E rpcOk \in BOOLEAN :
         SetStore(handleTransaction(Store, inbox[Len(inbox)], 0, now, rpcOk))
    /\ inbox' = SubSeq(inbox, 1, Len(inbox) - 1)
    /\ UNCHANGED <<deployVars, redeployVars, unzipVars, faultVars, walk, listeners, task, sync_status,
                   now, blocks, scannerVars, configVars, drained>>

\* receiveMessages: socket.Recv takes the oldest message, handleRawTx hands
\* it to the handler with height 0 and the current time
MempoolHandle ==
    /\ listeners > 0
    /\ inbox # <<>>
    /\ \E rpcOk \in BOOLEAN :
         SetStore(handleTransaction(Store, Head(inbox), 0, now, rpcOk))
    /\ inbox' = Tail(inbox)
    /\ UNCHANGED <<deployVars, redeployVars, unzipVars, faultVars, walk, listeners, task, sync_status,
                   now, blocks, scannerVars, configVars, drained>>

\* the operator edits the configured start height; it is read at the next
\* start of the process
Reconfigure ==
    /\ \E c \in 0..MaxConfigStart : configStartHeight' = c
    /\ UNCHANGED <<storeVars, deployVars, redeployVars, unzipVars, faultVars, walk, zmqVars, task, sync_status,
                   now, blocks, scannerVars, zmqEnabled, chainTxs, drained>>

\* the scanner and the mempool subscriber, with a node that can fail to
\* deliver a block, a database that can fail to write the cursor, and restarts
\* under any configured start height
NextScan ==
    \/ MineBlock
    \/ PollNewBlocks
    \/ PollAtTip
    \/ ScanBlockDiskFailing
    \/ FinishBatch
    \/ MempoolArrive
    \/ MempoolHandle
    \/ Restart
    \/ Reconfigure

InitScan == InitWith({{"T0", "T1"}}) /\ NoArchive

SpecScan == InitScan /\ [][NextScan]_vars

\* the names a zip entry (f.Name) can carry, as segments: plain, nested,
\* climbing with "..", climbing into the root of another app, climbing from
\* inside a directory, absolute (a leading separator), and "."
EntryNames ==
    { <<"a.js">>, <<"sub", "b.js">>, <<"..", "..", "evil">>,
      <<"..", "P3", "x">>, <<"sub", "..", "..", "x">>,
      <<"", "etc", "passwd">>, <<".">> }

\* the archives of at most MaxEntries entries
Archives == UNION {[1..n -> EntryNames] : n \in 0..MaxEntries}

\* the apps whose deploy root an archive is extracted into
UnzipDirs == {"P0", "P3"}

\* appDeployDir of deployMetaApp for unzipDir
UnzipTargetDir == Join(DeployBaseDir, <<unzipDir>>)

\* unzipFile is called with an archive and a deploy root, on an empty disk
InitUnzip ==
    /\ InitWith({{"T3"}})
    /\ archive \in Archives
    /\ unzipDir \in UnzipDirs
    /\ unzipErr = ""

\* one call of unzipFile(zipPath, targetDir)
UnzipArchive ==
    /\ LET r == unzipFile(fs, archive, UnzipTargetDir)
       IN  /\ fs' = r.disk
           /\ unzipErr' = r.err
    /\ UNCHANGED <<storeVars, deploy_result, queueItem, deployErr, redeployVars,
                   archive, unzipDir, task, sync_status, now, blocks,
                   scannerVars, configVars, drained, zmqVars, faultVars, walk>>

NextUnzip == UnzipArchive

SpecUnzip == InitUnzip /\ [][NextUnzip]_vars

\* the records a caller of MetaAppDAO.Create stores for the two modify pins
\* that name each other as parent: FirstPinId unset, or one of the two
SeedApps ==
    {NewMetaApp(MetaIDData(p), f, 0, now, TRUE) :
        p \in {"PA", "PB"}, f \in {"", "PA", "PB"}}

\* MetaAppDAO.Create of a pin that is not stored
SeedCreate ==
    /\ \E app \in SeedApps :
         /\ app.pin_id \notin DOMAIN pin
         /\ SetStore(CreateMetaApp(Store, app))
    /\ UNCHANGED <<deployVars, redeployVars, unzipVars, faultVars, walk, zmqVars, task, sync_status, now, blocks, scannerVars,
                   configVars, drained>>

\* the service on a database that is seeded through the DAO, with the
\* transaction of the modify PC on the network
InitSeed == InitWith({{"T4"}}) /\ NoArchive

NextSeed ==
    \/ SeedCreate
    \/ Next

SpecSeed == InitSeed /\ [][NextSeed]_vars

(***************************************************************************)
(* The goroutines inside the handler.  The scanner goroutine and the ZMQ   *)
(* listener goroutine both call handleTransaction; the steps below are the *)
(* database calls of one pass of its loop: GetByPinID (with the height     *)
(* update), extractFirstPinIDFromOriginalPath, and Create with             *)
(* addToDeployQueue.  No lock or channel orders the two goroutines.        *)
(***************************************************************************)
RECURSIVE FlattenPins(_)
\* the pins of the transactions of a block, in block order
FlattenPins(txs) ==
    IF txs = <<>> THEN <<>> ELSE TxPins(Head(txs)) \o FlattenPins(Tail(txs))

\* the loop of handleTransaction moves to the next pin, or the call returns
AdvanceTask(t) ==
    IF Len(t.pins) > 1
    THEN [t EXCEPT !.pc = "check", !.pins = Tail(@), !.first = ""]
    ELSE [t EXCEPT !.pc = "done", !.pins = <<>>, !.first = ""]

\* ScanBlock calls the handler for the transactions of the block at
\* currentHeight
ConcDeliverBlock ==
    /\ scanning
    /\ currentHeight <= latestHeight
    /\ task["scanner"].pc = "idle"
    /\ LET pins == FlattenPins(BlockAt(currentHeight).txs)
       IN  task' = [task EXCEPT !["scanner"] =
                      [pc |-> IF pins = <<>> THEN "done" ELSE "check",
                       pins |-> pins, height |-> currentHeight,
                       timestamp |-> BlockAt(currentHeight).ts, first |-> ""]]
    /\ UNCHANGED <<storeVars, deployVars, redeployVars, unzipVars, faultVars, walk, zmqVars, sync_status, now, blocks, scannerVars,
                   configVars, drained>>

\* handleRawTx calls the handler for a transaction of the mempool
ConcDeliverMempool ==
    /\ zmqStarted
    /\ task["zmq"].pc = "idle"
    /\ \E tx \in chainTxs :
         task' = [task EXCEPT !["zmq"] =
                    [pc |-> "check", pins |-> TxPins(tx), height |-> 0,
                     timestamp |-> now, first |-> ""]]
    /\ UNCHANGED <<storeVars, deployVars, redeployVars, unzipVars, faultVars, walk, zmqVars, sync_status, now, blocks, scannerVars,
                   configVars, drained>>

\* handleTransaction: GetByPinID of the pin, and the height update of a pin
\* that is stored
ConcCheck ==
    /\ \E g \in Goroutines :
         /\ task[g].pc = "check"
         /\ LET t == task[g]
                metaData == MetaIDData(Head(t.pins))
            IN  IF ~isMetaAppPath(metaData.path)[1]
                THEN /\ task' = [task EXCEPT ![g] = AdvanceTask(t)]
                     /\ UNCHANGED storeVars
                ELSE IF metaData.pin_id \in DOMAIN pin
                THEN /\ task' = [task EXCEPT ![g] = AdvanceTask(t)]
                     /\ SetStore(handlePin(Store, metaData, t.height, t.timestamp, TRUE))
                ELSE IF metaData.operation = "modify" /\ metaData.path # ""
                THEN /\ task' = [task EXCEPT ![g].pc = "resolve"]
                     /\ UNCHANGED storeVars
                ELSE IF metaData.operation = "create" /\ isMetaAppPath(metaData.path)[2]
                THEN /\ task' = [task EXCEPT ![g] = AdvanceTask(t)]
                     /\ UNCHANGED storeVars
                ELSE /\ task' = [task EXCEPT ![g].pc = "persist",
                                             ![g].first = metaData.pin_id]
                     /\ UNCHANGED storeVars
    /\ UNCHANGED <<deployVars, redeployVars, unzipVars, faultVars, walk, zmqVars, sync_status, now, blocks, scannerVars, configVars,
                   drained>>

\* handleTransaction: extractFirstPinIDFromOriginalPath of a modify
ConcResolve ==
    /\ \E g \in Goroutines :
         /\ task[g].pc = "resolve"
         /\ LET t == task[g]
                r == extractFirstPinIDFromOriginalPath(pin, MetaIDData(Head(t.pins)).path)
            IN  task' = [task EXCEPT ![g] =
                           IF r.err \/ r.id = "" THEN AdvanceTask(t)
                           ELSE [t EXCEPT !.pc = "persist", !.first = r.id]]
    /\ UNCHANGED <<storeVars, deployVars, redeployVars, unzipVars, faultVars, walk, zmqVars, sync_status, now, blocks, scannerVars,
                   configVars, drained>>

\* processMetaAppContent / processMetaAppModify: Create and addToDeployQueue
ConcPersist ==
    /\ \E g \in Goroutines, rpcOk \in BOOLEAN :
         /\ task[g].pc = "persist"
         /\ LET t == task[g]
                metaData == MetaIDData(Head(t.pins))
            IN  /\ SetStore(IF metaData.operation = "modify" /\ metaData.path # ""
                            THEN processMetaAppModify(Store, metaData, t.first,
                                                      t.height, t.timestamp, rpcOk)
                            ELSE processMetaAppContent(Store, metaData, t.height,
                                                       t.timestamp, rpcOk))
                /\ task' = [task EXCEPT ![g] = AdvanceTask(t)]
    /\ UNCHANGED <<deployVars, redeployVars, unzipVars, faultVars, walk, zmqVars, sync_status, now, blocks, scannerVars, configVars,
                   drained>>

\* the handler returned: the scanner records the block as drained
\* (onBlockComplete) and moves to the next height
ConcBlockComplete ==
    /\ task["scanner"].pc = "done"
    /\ task' = [task EXCEPT !["scanner"] = IdleTask]
    /\ sync_status' = UpdateIndexerSyncStatusHeight(sync_status, currentHeight)
    /\ currentHeight' = currentHeight + 1
    /\ drained' = [drained EXCEPT ![currentHeight] = IF @ < 2 THEN @ + 1 ELSE 2]
    /\ UNCHANGED <<storeVars, deployVars, redeployVars, unzipVars, faultVars, walk, zmqVars, now, blocks, latestHeight, scanning,
                   zmqStarted, configVars>>

\* the handler returned to handleRawTx
ConcRawTxDone ==
    /\ task["zmq"].pc = "done"
    /\ task' = [task EXCEPT !["zmq"] = IdleTask]
    /\ UNCHANGED <<storeVars, deployVars, redeployVars, unzipVars, faultVars, walk, zmqVars, sync_status, now, blocks, scannerVars,
                   configVars, drained>>

NextConc ==
    \/ Tick
    \/ MineBlock
    \/ PollNewBlocks
    \/ PollAtTip
    \/ FinishBatch
    \/ ConcDeliverBlock
    \/ ConcDeliverMempool
    \/ ConcCheck
    \/ ConcResolve
    \/ ConcPersist
    \/ ConcBlockComplete
    \/ ConcRawTxDone

SpecConc == Init /\ [][NextConc]_vars

\* two versions of one app whose artifacts both deploy, with a content
\* store and a disk that never fail: every tick of the worker succeeds
InitVersions == InitWith({{"T5", "T6"}}) /\ NoArchive

DeployTickOk == DeployTick /\ deployErr' = ""

NextVersions ==
    \/ Tick
    \/ MineBlock
    \/ PollNewBlocks
    \/ PollAtTip
    \/ ScanBlock
    \/ FinishBatch
    \/ MempoolTx
    \/ DeployTickOk

SpecVersions == InitVersions /\ [][NextVersions]_vars

\* the deploy worker with a ticker that keeps firing, while versions arrive
\* and redeploy requests keep coming
NextWorker ==
    \/ Tick
    \/ PollAtTip
    \/ MempoolTx
    \/ DeployTick
    \/ Redeploy

\* a tick changes the state exactly when the queue holds an item or the
\* worker still carries the item or the error of its last round
DeployTickEnabled ==
    \/ HasNextDeployQueueItem(deploy_queue)
    \/ queueItem # <<>>
    \/ deployErr # ""

\* the 5 second ticker of deployProcessor never stops: weak fairness of the
\* worker's tick, spelled out with the enabling condition above
TickerKeepsFiring == []<>(~DeployTickEnabled) \/ []<><<DeployTick>>_vars

SpecWorker ==
    InitVersions /\ [][NextWorker]_vars /\ WF_vars(Tick) /\ TickerKeepsFiring

(***************************************************************************)
(* Shutdown.  main waits for SIGINT/SIGTERM, shuts the HTTP server down    *)
(* and returns; the deferred cleanup closes the database, and the process  *)
(* ends when main has returned.  The scanner loop, the ZMQ listener and    *)
(* the deploy processor are goroutines that main never stops               *)
(* (BlockScanner.Stop has no caller, scanBlocks and deployProcessor have   *)
(* no exit), so they run until the process ends.                           *)
(***************************************************************************)
ServiceGoroutines == {"scanner", "zmq", "worker"}

\* the database has not been closed
StoreOpen == shutdown.main \in {"waiting", "stopping"}

\* waitForShutdown returns and shutdownServer stops the HTTP server
ShutdownSignal ==
    /\ shutdown.main = "waiting"
    /\ shutdown' = [shutdown EXCEPT !.main = "stopping"]
    /\ UNCHANGED <<storeVars, deployVars, redeployVars, unzipVars, crashed,
                   storeErrors, walk, zmqVars, task, sync_status, now, blocks,
                   scannerVars, configVars, drained>>

\* main returns: the deferred cleanup calls database.DB.Close()
CloseStore ==
    /\ shutdown.main = "stopping"
    /\ shutdown' = [shutdown EXCEPT !.main = "closed"]
    /\ UNCHANGED <<storeVars, deployVars, redeployVars, unzipVars, crashed,
                   storeErrors, walk, zmqVars, task, sync_status, now, blocks,
                   scannerVars, configVars, drained>>

\* goroutine g has a database call to make: the worker reads the queue on
\* every tick, the scanner has a block of its batch left, the listener has
\* a transaction to hand to the handler
HasStoreCall(g) ==
    IF g = "worker" THEN TRUE
    ELSE IF g = "scanner" THEN scanning /\ currentHeight <= latestHeight
    ELSE zmqStarted /\ chainTxs # {}

\* between Close and the end of the process a goroutine that is still
\* running calls the closed database; the call fails and writes nothing
LateStoreCall ==
    /\ shutdown.main = "closed"
    /\ \E g \in ServiceGoroutines :
         /\ HasStoreCall(g)
         /\ shutdown' = [shutdown EXCEPT !.late = @ \cup {g}]
    /\ UNCHANGED <<storeVars, deployVars, redeployVars, unzipVars, crashed,
                   storeErrors, walk, zmqVars, task, sync_status, now, blocks,
                   scannerVars, configVars, drained>>

\* the process ends and its goroutines with it
ProcessExit ==
    /\ shutdown.main = "closed"
    /\ shutdown' = [shutdown EXCEPT !.main = "exited"]
    /\ UNCHANGED <<storeVars, deployVars, redeployVars, unzipVars, crashed,
                   storeErrors, walk, zmqVars, task, sync_status, now, blocks,
                   scannerVars, configVars, drained>>

\* what the three goroutines do while the database is open
ServiceStep ==
    /\ StoreOpen
    /\ \/ MineBlock
       \/ PollNewBlocks
       \/ PollAtTip
       \/ ScanBlock
       \/ FinishBatch
       \/ MempoolTx
       \/ DeployTick

NextShutdown ==
    \/ ServiceStep
    \/ ShutdownSignal
    \/ CloseStore
    \/ LateStoreCall
    \/ ProcessExit

SpecShutdown == InitVersions /\ [][NextShutdown]_vars

\* the handler is called with any event timestamp, below and above
\* SecondsLimit: mempool events on a clock that shows that value
InitTimestamp == InitClock(IngestRuns, 0..MaxTimestamp) /\ NoArchive

NextTimestamp ==
    \/ PollAtTip
    \/ MempoolTx

SpecTimestamp == InitTimestamp /\ [][NextTimestamp]_vars

\* the writes of CreateMetaApp in source order: pin, latest, history,
\* by_creator, by_time (each its own synced Set); addToDeployQueue follows
CreateWrites == 5

\* store S after the first k of the writes that lead from S to T
PartialWrite(S, T, k) ==
    [pin |-> IF k >= 1 THEN T.pin ELSE S.pin,
     latest |-> IF k >= 2 THEN T.latest ELSE S.latest,
     history |-> IF k >= 3 THEN T.history ELSE S.history,
     by_creator |-> IF k >= 4 THEN T.by_creator ELSE S.by_creator,
     by_time |-> IF k >= 5 THEN T.by_time ELSE S.by_time,
     deploy_queue |-> S.deploy_queue]

\* the process dies while ScanBlock(currentHeight) runs, after n pins of the
\* block were handled and k writes of the next pin were made (or after the
\* last pin, before the cursor is written), and is started again
CrashDuringBlock ==
    /\ crashed = <<>>
    /\ scanning
    /\ currentHeight <= latestHeight
    /\ \E rpcOk \in BOOLEAN :
         LET block == BlockAt(currentHeight)
             pins == FlattenPins(block.txs)
         IN  \E n \in 0..Len(pins), k \in 0..CreateWrites :
               LET S1 == handlePins(Store, SubSeq(pins, 1, n), currentHeight,
                                    block.ts, rpcOk)
                   S2 == IF n = Len(pins) THEN S1
                         ELSE PartialWrite(S1,
                                  handlePin(S1, MetaIDData(pins[n + 1]),
                                            currentHeight, block.ts, rpcOk), k)
               IN  /\ SetStore(S2)
                   /\ crashed' =
                        <<[height |-> currentHeight,
                           expected |-> {handleTransactions(Store, block.txs,
                                             currentHeight, block.ts, r) :
                                         r \in BOOLEAN}]>>
    /\ currentHeight' = StartHeight(sync_status, configStartHeight)
    /\ sync_status' =
         initializeSyncStatus(sync_status, StartHeight(sync_status, configStartHeight))
    /\ latestHeight' = 0
    /\ scanning' = FALSE
    /\ zmqStarted' = FALSE
    /\ listeners' = 0
    /\ inbox' = <<>>
    /\ UNCHANGED <<deployVars, redeployVars, unzipVars, task, now, blocks,
                   configVars, drained, storeErrors, shutdown, walk>>

\* the scanner on a process that can die inside a block
NextCrash ==
    \/ MineBlock
    \/ PollNewBlocks
    \/ PollAtTip
    \/ ScanBlock
    \/ FinishBatch
    \/ CrashDuringBlock

SpecCrash == Init /\ [][NextCrash]_vars

RECURSIVE handlePinsStoppingAtError(_, _, _, _, _, _, _)
\* variant of handlePinsFailing that returns at the first pin whose write
\* fails
handlePinsStoppingAtError(S, pins, height, timestamp, rpcOk, failing, k) ==
    IF pins = <<>> THEN S
    ELSE LET T == handlePin(S, MetaIDData(Head(pins)), height, timestamp, rpcOk)
         IN  IF Head(pins) \in failing
             THEN PartialWrite(S, T, k)
             ELSE handlePinsStoppingAtError(T, Tail(pins), height, timestamp,
                                            rpcOk, failing, k)

RECURSIVE handlePinsFailing(_, _, _, _, _, _, _)
\* the loop of handleTransaction over the pins of a block when the database
\* returns an error after k writes of metaAppDAO.Create / Update for the
\* pins in failing: the error is logged and the loop continues
handlePinsFailing(S, pins, height, timestamp, rpcOk, failing, k) ==
    IF pins = <<>> THEN S
    ELSE LET T == handlePin(S, MetaIDData(Head(pins)), height, timestamp, rpcOk)
         IN  handlePinsFailing(IF Head(pins) \in failing
                               THEN PartialWrite(S, T, k) ELSE T,
                               Tail(pins), height, timestamp, rpcOk, failing, k)

\* one turn of the batch loop on a database whose writes can fail
ScanBlockStoreFailing ==
    /\ scanning
    /\ currentHeight <= latestHeight
    /\ \E rpcOk \in BOOLEAN, k \in 0..(CreateWrites - 1) :
         LET pins == FlattenPins(BlockAt(currentHeight).txs)
         IN  \E failing \in SUBSET {pins[i] : i \in 1..Len(pins)} :
               /\ SetStore(handlePinsFailing(Store, pins, currentHeight,
                                             BlockAt(currentHeight).ts, rpcOk,
                                             failing, k))
               /\ storeErrors' = failing
    /\ sync_status' = UpdateIndexerSyncStatusHeight(sync_status, currentHeight)
    /\ currentHeight' = currentHeight + 1
    /\ drained' = [drained EXCEPT ![currentHeight] = IF @ < 2 THEN @ + 1 ELSE 2]
    /\ UNCHANGED <<deployVars, redeployVars, unzipVars, crashed, zmqVars, task,
                   now, blocks, latestHeight, scanning, zmqStarted, configVars,
                   shutdown, walk>>

\* a block with a malformed pin, a modify of a pin that is not stored or lies
\* on a seeded cycle, and well-formed creates
InitFaulty == InitWith({{"T7", "T8"}}) /\ NoArchive

NextFaulty ==
    \/ SeedCreate
    \/ MineBlock
    \/ PollNewBlocks
    \/ PollAtTip
    \/ ScanBlockStoreFailing
    \/ FinishBatch
    \/ MempoolTx

SpecFaulty == InitFaulty /\ [][NextFaulty]_vars

(***************************************************************************)
(* Ancestor resolution, one call of findFirstPinIDRecursive per step, on   *)
(* any contents of the pin collection over three pin ids.                  *)
(***************************************************************************)
WalkIds == {"PA", "PB", "PC"}

\* a stored record as far as the resolution reads it
WalkRecord(id, op, first, path) ==
    [first_pin_id |-> first, pin_id |-> id, path |-> path, operation |-> op,
     content |-> "", code |-> "", block_height |-> 0, timestamp |-> SecondsLimit,
     creator_meta_id |-> ""]

\* the records a pin id can be stored with: a create or a revoke with any
\* FirstPinId, a modify with FirstPinId set, a modify without FirstPinId and
\* with any parent in its path
WalkRecords(id) ==
    {WalkRecord(id, "create", f, ProtocolPath) : f \in WalkIds \cup {""}}
    \cup {WalkRecord(id, "revoke", "", ProtocolPath)}
    \cup {WalkRecord(id, "modify", f, "@" \o f) : f \in WalkIds}
    \cup {WalkRecord(id, "modify", "", "@" \o q) : q \in WalkIds}

\* the contents of the pin collection: every subset of the ids, every record
WalkStores ==
    UNION {{f \in [D -> UNION {WalkRecords(id) : id \in WalkIds}] :
                \A id \in D : f[id].pin_id = id} : D \in SUBSET WalkIds}

\* the call returns
WalkDone(w, r) == [w EXCEPT !.pc = "done", !.err = r.err, !.id = r.id]

\* variant of WalkNext without the visited map
WalkNextUnguarded(pins, w) ==
    LET pinID == w.pinID
        looked == [w EXCEPT !.lookups[pinID] = IF @ < 2 THEN @ + 1 ELSE 2]
    IN  IF pinID \notin DOMAIN pins THEN WalkDone(looked, NotResolved)
        ELSE
          LET metaApp == pins[pinID]
          IN  IF metaApp.operation = "create"
              THEN IF metaApp.first_pin_id # ""
                   THEN WalkDone(looked, Found(metaApp.first_pin_id))
                   ELSE WalkDone(looked, Found(metaApp.pin_id))
              ELSE IF metaApp.operation = "modify"
              THEN IF metaApp.first_pin_id # ""
                   THEN IF metaApp.first_pin_id # pinID
                        THEN [looked EXCEPT !.pinID = metaApp.first_pin_id]
                        ELSE WalkDone(looked, Found(metaApp.first_pin_id))
                   ELSE IF metaApp.path # "" /\ HasAtPrefix(metaApp.path)
                           /\ TrimAtPrefix(metaApp.path) # ""
                           /\ TrimAtPrefix(metaApp.path) # pinID
                        THEN [looked EXCEPT !.pinID = TrimAtPrefix(metaApp.path)]
                        ELSE WalkDone(looked, Found(pinID))
              ELSE WalkDone(looked, Found(pinID))

\* one call findFirstPinIDRecursive(w.pinID, w.visited): the visited check,
\* the mark, the lookup GetByPinID (counted in lookups, up to 2), and then
\* the return or the recursive call
WalkNext(pins, w) ==
    IF w.pinID \in w.visited THEN WalkDone(w, NotResolved)
    ELSE
      LET pinID == w.pinID
          looked == [w EXCEPT !.visited = @ \cup {pinID},
                              !.lookups[pinID] = IF @ < 2 THEN @ + 1 ELSE 2]
      IN  IF pinID \notin DOMAIN pins THEN WalkDone(looked, NotResolved)
          ELSE
            LET metaApp == pins[pinID]
            IN  IF metaApp.operation = "create"
                THEN IF metaApp.first_pin_id # ""
                     THEN WalkDone(looked, Found(metaApp.first_pin_id))
                     ELSE WalkDone(looked, Found(metaApp.pin_id))
                ELSE IF metaApp.operation = "modify"
                THEN IF metaApp.first_pin_id # ""
                     THEN IF metaApp.first_pin_id # pinID
                          THEN [looked EXCEPT !.pinID = metaApp.first_pin_id]
                          ELSE WalkDone(looked, Found(metaApp.first_pin_id))
                     ELSE IF metaApp.path # "" /\ HasAtPrefix(metaApp.path)
                             /\ TrimAtPrefix(metaApp.path) # ""
                             /\ TrimAtPrefix(metaApp.path) # pinID
                          THEN [looked EXCEPT !.pinID = TrimAtPrefix(metaApp.path)]
                          ELSE WalkDone(looked, Found(pinID))
                ELSE WalkDone(looked, Found(pinID))

\* the next call of the recursion
WalkStep ==
    /\ walk.pc = "run"
    /\ walk' = WalkNext(pin, walk)
    /\ UNCHANGED <<storeVars, deployVars, redeployVars, unzipVars, faultVars,
                   zmqVars, task, sync_status, now, blocks, scannerVars,
                   configVars, drained>>

\* extractFirstPinIDFromOriginalPath is called with the path "@" + start on
\* any contents of the pin collection
InitWalk ==
    /\ pin \in WalkStores
    /\ \E start \in WalkIds :
         walk = [pc |-> "run", start |-> start, pinID |-> start, visited |-> {},
                 lookups |-> [id \in WalkIds |-> 0], err |-> FALSE, id |-> ""]
    /\ InitAround({{"T4"}}, {SecondsLimit})
    /\ NoArchive

NextWalk == WalkStep

\* the recursion is ordinary sequential code: a call that can run does run
SpecWalk == InitWalk /\ [][NextWalk]_vars /\ WF_vars(WalkStep)

(***************************************************************************)
(* Properties                                                              *)
(***************************************************************************)
PinsOfTx(tx) == {TxPins(tx)[i] : i \in 1..Len(TxPins(tx))}
PinsOfBlock(h) == UNION {PinsOfTx(tx) : tx \in TxsOf(BlockAt(h))}
HistoryEntriesOf(p) ==
    {<<F, i>> \in UNION {{F} \X (1..Len(history[F])) : F \in DOMAIN history} :
        history[F][i].pin_id = p}

\* C1: history[F] holds at most one entry per pin_id, whatever was delivered
\* (mempool deliveries, block deliveries, repeats, height bumps).
C1_HistoryOneEntryPerPin ==
    \A F \in DOMAIN history :
        \A i, j \in 1..Len(history[F]) :
            i # j => history[F][i].pin_id # history[F][j].pin_id

\* C2: latest[F] is the stored version of app F with the greatest timestamp:
\* no stored version of F has a timestamp later than that of latest[F].
C2_LatestHasGreatestTimestamp ==
    \A p \in DOMAIN pin :
        /\ pin[p].first_pin_id \in DOMAIN latest
        /\ pin[p].timestamp <= latest[pin[p].first_pin_id].timestamp

\* every MetaApp pin of block h is stored with a block_height of at least h
BlockSettled(h) ==
    \A p \in PinsOfBlock(h) : p \in DOMAIN pin /\ pin[p].block_height >= h

\* ScanBlock drains a block that was drained before
ReplayStep == ScanBlock /\ drained[currentHeight] >= 1

C8_ConfirmedDeliveryWins ==
    \A h \in 1..Len(blocks) :
        drained[h] >= 1 =>
            \A p \in PinsOfBlock(h) \cap DOMAIN pin :
                /\ \E rpcOk \in BOOLEAN :
                     pin[p] = NewMetaApp(MetaIDData(p), pin[p].first_pin_id, h,
                                         blocks[h].ts, rpcOk)
                /\ Cardinality(HistoryEntriesOf(p)) = 1

\* C9: every stored modify has a stored create whose pin_id is the modify's
\* first_pin_id.
C9_ModifyHasStoredCreate ==
    \A p \in DOMAIN pin :
        pin[p].operation = "modify" =>
            \E q \in DOMAIN pin :
                q = pin[p].first_pin_id /\ pin[q].operation = "create"

\* C3: on each tick the deploy worker picks, among the items in deploy_queue,
\* one with the smallest original timestamp (the oldest).
C3_WorkerPicksOldest ==
    [][DeployTick /\ HasNextDeployQueueItem(deploy_queue)
         => \A k \in DOMAIN deploy_queue :
                queueItem'[1].timestamp <= deploy_queue[k].timestamp]_vars

\* C5: whenever the worker removes an item because its try_count reached
\* maxRetryCount, deploy_result of its pin has status failed and carries an
\* error message, whatever made the attempts fail.
C5_RemovedAfterRetriesIsFailed ==
    [][DeployTick /\ deployErr' # "" /\ queueItem' # <<>>
         => (queueItem'[1].try_count >= maxRetryCount
               => /\ queueItem'[1].pin_id \in DOMAIN deploy_result'
                  /\ deploy_result'[queueItem'[1].pin_id].deploy_status = "failed"
                  /\ deploy_result'[queueItem'[1].pin_id].deploy_message # "")]_vars

\* the archive of this artifact reference has an entry outside the deploy root
HasEscapingEntry(code) ==
    LET entries == ZipEntries(MetafsFileInfo(TrimMetafilePrefix(code)).file_name)
    IN  \E i \in 1..Len(entries) :
            ~HasDirPrefix(Join(<<"root">>, entries[i]), <<"root">>)

\* the names the entries of this artifact's archive have below the deploy root
EntryPaths(code, dir) ==
    LET entries == ZipEntries(MetafsFileInfo(TrimMetafilePrefix(code)).file_name)
    IN  {Join(dir, entries[i]) : i \in 1..Len(entries)}

\* C6: a deploy whose zip has an entry escaping the deploy root writes no
\* entry of the archive and is not recorded as completed.
C6_EscapingZipRefused ==
    \A p \in DOMAIN deploy_result :
        HasEscapingEntry(deploy_result[p].code) =>
            /\ deploy_result[p].deploy_status # "completed"
            /\ fs \cap EntryPaths(deploy_result[p].code,
                                  deploy_result[p].deploy_file_path) = {}

\* PA and PB are stored modify records that name each other as parent
CycleStored ==
    /\ {"PA", "PB"} \subseteq DOMAIN pin
    /\ pin["PA"].operation = "modify" /\ pin["PA"].path = "@PB"
    /\ pin["PB"].operation = "modify" /\ pin["PB"].path = "@PA"

\* C10: while the stored parent references form a cycle, no delivery of the
\* modify PC (path @PA) writes a record for PC.
C10_CycleRefused ==
    [][CycleStored /\ "PC" \notin DOMAIN pin
         => /\ "PC" \notin DOMAIN pin'
            /\ \A F \in DOMAIN history' :
                 \A i \in 1..Len(history'[F]) : history'[F][i].pin_id # "PC"
            /\ \A k \in DOMAIN deploy_queue' : deploy_queue'[k].pin_id # "PC"]_vars

\* C4: the handler's check, resolve and persist of a pin run atomically with
\* respect to the other source: a pin that GetByPinID found absent is still
\* absent when the same execution persists its record.
C4_CheckResolvePersistAtomic ==
    \A g \in Goroutines :
        task[g].pc = "persist" => Head(task[g].pins) \notin DOMAIN pin

\* the pin a modify names as its parent
ParentOf(p) == TrimAtPrefix(MetaIDData(p).path)

\* some collection holds a record or a queue item of pin p
RecordedAnywhere(p) ==
    \/ p \in DOMAIN pin
    \/ \E F \in DOMAIN latest : latest[F].pin_id = p
    \/ \E F \in DOMAIN history :
         \E i \in 1..Len(history[F]) : history[F][i].pin_id = p
    \/ \E k \in DOMAIN by_creator : by_creator[k].pin_id = p
    \/ \E k \in DOMAIN by_time : by_time[k].pin_id = p
    \/ \E k \in DOMAIN deploy_queue : deploy_queue[k].pin_id = p

\* a hop of the walk from modify p to its first pin is not in the pin
\* collection: the pin its path names, or the first pin that one records
AncestorAbsent(p) ==
    \/ ParentOf(p) \notin DOMAIN pin
    \/ /\ ParentOf(p) \in DOMAIN pin
       /\ pin[ParentOf(p)].first_pin_id # ""
       /\ pin[ParentOf(p)].first_pin_id \notin DOMAIN pin

C12_HistoryHeadIsLatest ==
    \A F \in DOMAIN latest :
        /\ F \in DOMAIN history
        /\ history[F][1].pin_id = latest[F].pin_id

\* C13: by_creator holds exactly one entry per first_pin_id, over all creator
\* prefixes.
C13_ByCreatorOnePerApp ==
    \A F \in DOMAIN latest :
        Cardinality({k \in DOMAIN by_creator : k[3] = F}) = 1

\* C14: by_time holds exactly one entry per first_pin_id, and it is the
\* stored version of the app with the greatest timestamp.
C14_ByTimeOneNewestPerApp ==
    \A F \in DOMAIN latest :
        /\ Cardinality({k \in DOMAIN by_time : k[2] = F}) = 1
        /\ \A k \in DOMAIN by_time :
             k[2] = F =>
                 \A p \in DOMAIN pin :
                     pin[p].first_pin_id = F
                         => pin[p].timestamp <= by_time[k].timestamp

\* C15: history[F] is ordered by timestamp descending.
C15_HistorySortedDesc ==
    \A F \in DOMAIN history :
        \A i \in 1..(Len(history[F]) - 1) :
            history[F][i].timestamp >= history[F][i + 1].timestamp

\* a history whose newest version was written after an older one
C15_Witness ==
    \E F \in DOMAIN history :
        /\ Len(history[F]) >= 2
        /\ history[F][1].timestamp > history[F][Len(history[F])].timestamp
        /\ history[F][1].operation = "modify"

\* C16: deploy_queue holds at most one entry per pin_id.
C16_QueueOneEntryPerPin ==
    \A k1, k2 \in DOMAIN deploy_queue :
        deploy_queue[k1].pin_id = deploy_queue[k2].pin_id => k1 = k2

\* C17: every failed attempt of the worker raises the try_count of the item
\* it picked by exactly one; the item stays queued, under the same key, while
\* the new count is below maxRetryCount and is removed by the attempt that
\* brings the count to maxRetryCount, so no queued item ever carries a count
\* of maxRetryCount or more.
C17_RetryCeilingReachedOnce ==
    [][/\ \A k \in DOMAIN deploy_queue' :
             deploy_queue'[k].try_count < maxRetryCount
       /\ (DeployTick /\ HasNextDeployQueueItem(deploy_queue) /\ deployErr' # "")
            => LET k == FirstKey(DOMAIN deploy_queue)
                   item == deploy_queue[k]
               IN  IF item.try_count + 1 < maxRetryCount
                   THEN /\ k \in DOMAIN deploy_queue'
                        /\ deploy_queue'[k] =
                               [item EXCEPT !.try_count = item.try_count + 1]
                   ELSE \A k2 \in DOMAIN deploy_queue' :
                            deploy_queue'[k2].pin_id # item.pin_id]_vars

\* the last attempt failed, brought the count to maxRetryCount and removed
\* the item
C17_Witness ==
    /\ queueItem # <<>>
    /\ deployErr # ""
    /\ queueItem[1].try_count = maxRetryCount
    /\ \A k \in DOMAIN deploy_queue : deploy_queue[k].pin_id # queueItem[1].pin_id

\* C18: whenever deploy_result of a pin has status failed, the pin has no
\* item in deploy_queue.
C18_FailedOnlyWhenDequeued ==
    \A p \in DOMAIN deploy_result :
        deploy_result[p].deploy_status = "failed"
            => \A k \in DOMAIN deploy_queue : deploy_queue[k].pin_id # p

\* the version RedeployMetaApp puts in the queue for a stored pin
LatestVersionOf(p) == latest[pin[p].first_pin_id].pin_id

\* C20 as stated: a redeploy request for a pin that has an item in
\* deploy_queue is refused with the already-in-queue error and leaves
\* deploy_queue unchanged, whether or not the pin is the latest version.
C20_RedeployOfQueuedPinRefused ==
    [][(Redeploy /\ HasDeployQueueItem(deploy_queue, redeployReq'[1]))
         => /\ \E p \in PinIDs : redeployErr' = AlreadyInQueue(p)
            /\ deploy_queue' = deploy_queue]_vars

\* C20, amended: a redeploy request for a stored pin whose app's latest
\* version has an item in deploy_queue is refused with the already-in-queue
\* error and leaves deploy_queue unchanged, whether or not the requested pin
\* is that latest version.
C20_RedeployOfQueuedLatestRefused ==
    [][(/\ Redeploy
        /\ redeployReq'[1] \in DOMAIN pin
        /\ pin[redeployReq'[1]].first_pin_id \in DOMAIN latest
        /\ HasDeployQueueItem(deploy_queue, LatestVersionOf(redeployReq'[1])))
         => /\ redeployErr' = AlreadyInQueue(LatestVersionOf(redeployReq'[1]))
            /\ deploy_queue' = deploy_queue]_vars

\* a request for a pin that is not the latest version of its app was refused
\* because the latest version is queued
C20_Witness ==
    /\ redeployReq # <<>>
    /\ redeployReq[1] \in DOMAIN pin
    /\ LatestVersionOf(redeployReq[1]) # redeployReq[1]
    /\ redeployErr = AlreadyInQueue(LatestVersionOf(redeployReq[1]))
    /\ HasDeployQueueItem(deploy_queue, LatestVersionOf(redeployReq[1]))
    /\ ~HasDeployQueueItem(deploy_queue, redeployReq[1])

\* path f lies below directory root
IsBelow(f, root) ==
    /\ Len(f) > Len(root)
    /\ \A i \in 1..Len(root) : f[i] = root[i]

\* C19: whatever the archive, the files extraction leaves on the disk all lie
\* below the deploy root <deploy base>/<first_pin_id> (the disk is empty
\* before the extraction, so every file on it was written by unzipFile).
C19_UnzipStaysBelowRoot ==
    \A f \in fs : IsBelow(f, DeployBaseDir \o <<unzipDir>>)

\* an archive with an entry outside the root was refused after an earlier
\* entry had been written
C19_Witness ==
    /\ unzipErr = "invalid file path"
    /\ fs # {}
    /\ \E i \in 1..Len(archive) :
           ~IsBelow(Clean(DeployBaseDir \o <<unzipDir>> \o archive[i]),
                    DeployBaseDir \o <<unzipDir>>)

\* the step adds exactly one item to deploy_queue, for pin p with try_count 0
\* and timestamp ts, and leaves the other items and every record alone
InsertsOneItem(p, ts) ==
    /\ \E k \in DOMAIN deploy_queue' :
         /\ k \notin DOMAIN deploy_queue
         /\ DOMAIN deploy_queue' = DOMAIN deploy_queue \cup {k}
         /\ deploy_queue'[k].pin_id = p
         /\ deploy_queue'[k].try_count = 0
         /\ deploy_queue'[k].timestamp = ts
    /\ \A k \in DOMAIN deploy_queue : deploy_queue'[k] = deploy_queue[k]
    /\ UNCHANGED <<pin, latest, history, by_creator, by_time>>

\* C21 as stated: a redeploy request for a stored pin P that has no item in
\* deploy_queue inserts exactly one item with pin_id P, try_count 0 and the
\* timestamp of P's stored record, and changes no record.
C21_RedeployQueuesRequestedPin ==
    [][(/\ Redeploy
        /\ redeployReq'[1] \in DOMAIN pin
        /\ ~HasDeployQueueItem(deploy_queue, redeployReq'[1]))
         => InsertsOneItem(redeployReq'[1], pin[redeployReq'[1]].timestamp)]_vars

\* C21, amended: a redeploy request for a stored pin P, when the latest
\* version of P's app names an artifact and has no item in deploy_queue,
\* inserts exactly one item whose pin_id is that latest version, whose
\* try_count is 0 and whose timestamp is that of the record in latest, and
\* changes no record.
C21_RedeployQueuesLatestVersion ==
    [][(/\ Redeploy
        /\ redeployReq'[1] \in DOMAIN pin
        /\ pin[redeployReq'[1]].first_pin_id \in DOMAIN latest
        /\ CodePinID(latest[pin[redeployReq'[1]].first_pin_id]) # ""
        /\ ~HasDeployQueueItem(deploy_queue, LatestVersionOf(redeployReq'[1])))
         => /\ redeployErr' = ""
            /\ InsertsOneItem(LatestVersionOf(redeployReq'[1]),
                              latest[pin[redeployReq'[1]].first_pin_id].timestamp)]_vars

\* a request for a pin that is not the latest version of its app was accepted
\* and the item it inserted, for the latest version, is in the queue
C21_Witness ==
    /\ redeployReq # <<>>
    /\ redeployErr = ""
    /\ redeployReq[1] \in DOMAIN pin
    /\ LatestVersionOf(redeployReq[1]) # redeployReq[1]
    /\ \E k \in DOMAIN deploy_queue :
         /\ deploy_queue[k].pin_id = LatestVersionOf(redeployReq[1])
         /\ deploy_queue[k].first_pin_id = ""
         /\ deploy_queue[k].try_count = 0

\* C22: whenever the scanner has finished block h and moves on to block
\* h + 1, the persisted cursor equals h.
C22_CursorIsLastFinishedBlock ==
    [][(ScanBlockDiskFailing /\ currentHeight' = currentHeight + 1)
         => sync_status' = <<currentHeight>>]_vars

\* C23: the persisted cursor never decreases (and is never removed), across
\* block completions and restarts under any configured start height.
C23_CursorNeverDecreases ==
    [][sync_status # <<>>
         => /\ sync_status' # <<>>
            /\ sync_status'[1] >= sync_status[1]]_vars

\* the process was started again at the configured height 1 after block 1
\* had been completed and its cursor written
C23_Witness ==
    /\ sync_status = <<1>>
    /\ drained[1] >= 1
    /\ currentHeight = 1
    /\ configStartHeight = 1

RECURSIVE HandedInOrder(_, _, _, _, _, _)
\* the store after the handler was called on txs[i], txs[i + 1], ... one
\* after the other
HandedInOrder(S, txs, i, height, timestamp, rpcOk) ==
    IF i > Len(txs) THEN S
    ELSE HandedInOrder(handleTransaction(S, txs[i], height, timestamp, rpcOk),
                       txs, i + 1, height, timestamp, rpcOk)

\* C24: between two starts of the process the scanner's height moves only
\* from h to h + 1, and only in a step that hands the transactions of block h
\* to the handler in block order; a block that could not be fetched leaves
\* the height where it is.
C24_BlocksHandedConsecutivelyInOrder ==
    [][(currentHeight' # currentHeight /\ ~Restart)
         => /\ currentHeight' = currentHeight + 1
            /\ currentHeight <= Len(blocks)
            /\ \E rpcOk \in BOOLEAN :
                   Store' = HandedInOrder(Store, BlockAt(currentHeight).txs, 1,
                                          currentHeight,
                                          BlockAt(currentHeight).ts, rpcOk)]_vars

\* block 1 carries the modify before its create and has been handed over:
\* in block order the modify is skipped and only the create is stored
C24_Witness ==
    /\ Len(blocks) >= 1
    /\ blocks[1].txs = <<"T1", "T0">>
    /\ drained[1] = 1
    /\ currentHeight = 2
    /\ DOMAIN pin = {"P0"}

\* C25: a listener is started only in a step that leaves the scanner past
\* the chain tip it fetched; the collections change only when the scanner
\* hands over a block or while a listener runs; and a mempool message leaves
\* the socket only to a running listener, oldest first, handled with height 0.
C25_MempoolAfterCatchUpInArrivalOrder ==
    [][/\ listeners' > listeners
            => (~scanning' /\ currentHeight' > latestHeight')
       /\ Store' # Store
            => (currentHeight' = currentHeight + 1 \/ listeners > 0)
       /\ (Len(inbox') < Len(inbox) /\ ~Restart)
            => /\ listeners > 0
               /\ inbox' = Tail(inbox)
               /\ \E rpcOk \in BOOLEAN :
                      Store' = handleTransaction(Store, Head(inbox), 0, now, rpcOk)]_vars

\* after the scanner completed block 1 a listener runs, a mempool pin is
\* stored and two different messages wait in the socket
C25_Witness ==
    /\ listeners = 1
    /\ drained[1] >= 1
    /\ \E p \in DOMAIN pin : pin[p].block_height = 0
    /\ Len(inbox) = 2
    /\ inbox[1] # inbox[2]

\* C26: in one run of the process at most one listener is ever started, none
\* when the mempool subscription is disabled, and every evaluation of the
\* caught-up condition with the subscription enabled leaves exactly one
\* listener running.
C26_ListenerStartedOnce ==
    [][/\ listeners' <= 1
       /\ ~zmqEnabled' => listeners' = 0
       /\ ((PollAtTip \/ FinishBatch) /\ zmqEnabled) => listeners' = 1]_vars

\* the subscription is enabled and its listener was started at an earlier
\* catch-up; the scanner has just finished a later batch and is about to
\* evaluate the caught-up condition again
C26_Witness ==
    /\ zmqEnabled
    /\ zmqStarted
    /\ listeners = 1
    /\ scanning
    /\ currentHeight > latestHeight
    /\ drained[1] >= 1

\* C27: when the process died inside block h and was started again, the scan
\* that then completes block h leaves pin, latest, history, by_creator,
\* by_time and deploy_queue as an uninterrupted scan of block h would have.
C27_CrashReplayEqualsUninterrupted ==
    [][(/\ crashed # <<>>
        /\ ScanBlock
        /\ currentHeight = crashed[1].height
        /\ currentHeight' = currentHeight + 1)
         => Store' \in crashed[1].expected]_vars

\* every record held by a collection
StoredRecords ==
    {pin[p] : p \in DOMAIN pin} \cup {latest[F] : F \in DOMAIN latest}
    \cup UNION {{history[F][i] : i \in 1..Len(history[F])} : F \in DOMAIN history}
    \cup {by_creator[k] : k \in DOMAIN by_creator}
    \cup {by_time[k] : k \in DOMAIN by_time}

\* C28: a record of an event with timestamp t (here the clock value every
\* event of the run carries) is stored with timestamp t * 1000 when t is
\* below SecondsLimit and with t itself otherwise.
C28_TimestampStoredInMilliseconds ==
    \A app \in StoredRecords :
        app.timestamp = IF now < SecondsLimit THEN now * 1000 ELSE now

\* a record of an event with a seconds timestamp is stored, multiplied
C28_Witness ==
    /\ now > 0
    /\ now < SecondsLimit
    /\ \E p \in DOMAIN pin : pin[p].timestamp = now * 1000

\* the file a successful deploy of a version leaves in the deploy root
ArtifactPath(app) ==
    LET info == MetafsFileInfo(TrimMetafilePrefix(CodePinID(app)))
    IN  Join(Join(DeployBaseDir, <<app.first_pin_id>>),
             <<IF info.file_extension \in {".html", ".htm"}
               THEN "index.html" ELSE info.file_name>>)

\* the stored versions of a logical app
VersionsOfApp(F) == {p \in DOMAIN pin : pin[p].first_pin_id = F}

\* C30: when several versions of an app were queued, all of them were
\* deployed with success and the queue is empty, the deploy root of the app
\* holds the artifact of the version in latest.
C30_RootHoldsNewestVersion ==
    \A F \in DOMAIN latest :
        (/\ deploy_queue = <<>>
         /\ Cardinality(VersionsOfApp(F)) >= 2
         /\ \A p \in VersionsOfApp(F) :
                /\ p \in DOMAIN deploy_result
                /\ deploy_result[p].deploy_status = "completed")
        => ArtifactPath(latest[F]) \in fs

\* C31: once the ingest of a block has finished (also when the process died
\* inside the block and scanned it again), every stored record that names an
\* artifact in code or content is in deploy_queue or has a deploy_result.
C31_StoredArtifactWasEnqueued ==
    (crashed = <<>> \/ currentHeight > crashed[1].height)
        => \A p \in DOMAIN pin :
               CodePinID(pin[p]) # ""
                   => \/ HasDeployQueueItem(deploy_queue, p)
                      \/ p \in DOMAIN deploy_result

\* a record, a map of records and a history without the block heights
WithoutHeight(app) == [app EXCEPT !.block_height = 0]
MapWithoutHeight(f) == [k \in DOMAIN f |-> WithoutHeight(f[k])]
HistoryWithoutHeight ==
    [F \in DOMAIN history |->
        [i \in 1..Len(history[F]) |-> WithoutHeight(history[F][i])]]

\* the collections without the block heights of their records
StoreWithoutHeight ==
    <<MapWithoutHeight(pin), MapWithoutHeight(latest), HistoryWithoutHeight,
      MapWithoutHeight(by_creator), MapWithoutHeight(by_time), deploy_queue>>

\* C32: a step that stores no new pin_id (every delivery of the step is a
\* re-delivery) changes at most block_height fields, never downwards, and
\* changes nothing at all when the deliveries come from the mempool
\* (height 0); no record is deleted.
C32_RedeliveryOnlyBumpsHeight ==
    [][DOMAIN pin' = DOMAIN pin
         => /\ \A p \in DOMAIN pin : pin'[p].block_height >= pin[p].block_height
            /\ StoreWithoutHeight' = StoreWithoutHeight
            /\ (MempoolTx => Store' = Store)]_vars

\* a pin the handler stores when nothing fails: a well-formed payload at the
\* protocol path, or a modify whose ancestor is resolved in the store
Ingestable(q) ==
    /\ MetaIDData(q).json_ok
    /\ IF MetaIDData(q).operation = "modify"
       THEN ~extractFirstPinIDFromOriginalPath(pin, MetaIDData(q).path).err
       ELSE MetaIDData(q).path = ProtocolPath

\* C33: a scan of block h in which pins are skipped (malformed payload,
\* unresolved ancestor, cycle, database error) stores every other ingestable
\* pin of the block, completes, and moves the cursor to h.  The steps that
\* hand block h to the handler are those that count it in drained.
C33_BadPinDoesNotStopBlock ==
    [][(scanning /\ currentHeight <= latestHeight /\ drained' # drained)
         => /\ currentHeight' = currentHeight + 1
            /\ sync_status' = <<currentHeight>>
            /\ \A q \in PinsOfBlock(currentHeight) :
                   (Ingestable(q) /\ q \notin storeErrors') => q \in DOMAIN pin']_vars

\* block 1 held the malformed P7, PC whose ancestors PA and PB form a
\* cycle, P8 whose write failed and P9: P9 is stored and the cursor is at the
\* block
C33_Witness ==
    /\ Len(blocks) >= 1
    /\ {"PA", "PB"} \subseteq DOMAIN pin
    /\ extractFirstPinIDFromOriginalPath(pin, "@PA").err
    /\ PinsOfBlock(1) = {"P7", "PC", "P8", "P9"}
    /\ storeErrors = {"P8"}
    /\ "P9" \in DOMAIN pin
    /\ "P7" \notin DOMAIN pin
    /\ "PC" \notin DOMAIN pin
    /\ "P8" \notin DOMAIN pin
    /\ sync_status = <<1>>
    /\ currentHeight = 2

\* C34: a stored modify whose path names a stored version of a logical app
\* has the first_pin_id of that version; the versions P0, P1 (path @P0) and
\* P2 (path @P1) all have first_pin_id P0.
C34_ModifyInheritsFirstPin ==
    /\ \A p \in DOMAIN pin :
           (/\ pin[p].operation = "modify"
            /\ HasAtPrefix(pin[p].path)
            /\ TrimAtPrefix(pin[p].path) \in DOMAIN pin)
               => pin[p].first_pin_id = pin[TrimAtPrefix(pin[p].path)].first_pin_id
    /\ \A p \in {"P0", "P1", "P2"} \cap DOMAIN pin : pin[p].first_pin_id = "P0"

\* the create and both modifies of the chain are stored
C34_Witness ==
    /\ {"P0", "P1", "P2"} \subseteq DOMAIN pin
    /\ pin["P2"].path = "@P1"
    /\ pin["P2"].first_pin_id = "P0"

\* C35: on any contents of the pin collection the resolution returns, it
\* never looks a pin id up twice, and what it returns is an error or a pin
\* id: the result of findFirstPinIDRecursive.
C35_ResolutionTerminates ==
    /\ [](/\ \A id \in WalkIds : walk.lookups[id] <= 1
          /\ walk.pc = "done"
               => /\ (walk.err \/ walk.id \in WalkIds)
                  /\ [err |-> walk.err, id |-> walk.id]
                       = findFirstPinIDRecursive(pin, walk.start, {}))
    /\ <>(walk.pc = "done")

\* the resolution ran into the cycle PA -> PB -> PC -> PA and returned the
\* error after one lookup of each
C35_Witness ==
    /\ walk.pc = "done"
    /\ walk.err
    /\ walk.visited = WalkIds
    /\ \A id \in WalkIds : walk.lookups[id] = 1
    /\ walk.pinID \in walk.visited

\* C36: with a worker that keeps ticking, an item of deploy_queue is
\* eventually removed from it, whatever else is enqueued meanwhile.
C36_QueuedItemEventuallyRemoved ==
    \A p \in {"P5", "P6"} :
        HasDeployQueueItem(deploy_queue, p) ~> ~HasDeployQueueItem(deploy_queue, p)

\* C37: an execution of the handler that persists a pin whose item is already
\* in deploy_queue leaves the queue as it was: no entry is added and the
\* queued item, try_count included, is unchanged.
C37_InsertOfQueuedPinIsNoOp ==
    [][\A g \in Goroutines :
         (/\ task[g].pc = "persist"
          /\ task'[g] # task[g]
          /\ HasDeployQueueItem(deploy_queue, Head(task[g].pins)))
         => deploy_queue' = deploy_queue]_vars

\* C38: a restart over a persisted cursor begins at the larger of the
\* configured start height and cursor + 1, so the first height scanned after
\* the restart lies above the cursor.
C38_RestartBeginsAboveCursor ==
    [][(Restart /\ sync_status # <<>> /\ sync_status[1] > 0)
         => /\ currentHeight' = IF configStartHeight > sync_status[1] + 1
                                 THEN configStartHeight
                                 ELSE sync_status[1] + 1
            /\ currentHeight' > sync_status[1]]_vars

\* C39: the scanner, the listener and the worker have stopped when the
\* database is closed: none of them issues a database call after the close.
C39_NoStoreCallAfterClose == shutdown.late = {}

====
